---- MODULE Spec2Model ----
(***************************************************************************)
(* A model of the query-compilation core of the ORM: the update-cascade     *)
(* collector (django/db/models/update.py), the SELECT / UPDATE / INSERT     *)
(* compilers (django/db/models/sql/compiler.py) and the lookup classes      *)
(* (django/db/models/lookups.py); and the grammar of the class-based       *)
(* template tags (django/template/generic.py).                              *)
(***************************************************************************)
EXTENDS Integers, Sequences, FiniteSets, TLC

(***************************************************************************)
(* Bounds of the model.                                                     *)
(***************************************************************************)
NRows == 2          \* rows per table
MaxUpdates == 2     \* updates registered in one Collector by the caller
MaxDepth == 6       \* nesting depth of cascades explored

(***************************************************************************)
(* Part I.  The update-cascade collector, django/db/models/update.py        *)
(***************************************************************************)
VARIABLES
    schema,     \* the models' foreign keys (tests/update_cascade/models.py)
    db,         \* column -> row -> stored value
    stack,      \* the Collectors whose update() is running, outermost first
    cpc,        \* "build": the caller registers updates; "run"; "done"
    clog,       \* the statements and cascade calls made, in order
    nextId,     \* identifies one execution of one registered update
    db0         \* the rows as they were when update() was entered

cascadeVars == <<schema, db, stack, cpc, clog, nextId, db0>>

\* Parts II to V: one Query object and the compilers run on it.
VARIABLES
    query,      \* the Query object
    connection, \* the features of the database backend
    lastCall,   \* the compiler call made last, "" after a change of the query
    outcome,    \* what that call returned or raised
    noted,      \* what that call left on the compiler: refcounts_before
    cursors,    \* connection.cursor() calls made
    closed,     \* cursor.close() calls made
    dirty,      \* transaction.set_dirty(using) was called
    heap,       \* the column and lookup objects allocated, by identity
    sent,       \* the statements executed, in order
    ops         \* operations made on the query

sqlVars ==
    <<query, connection, lastCall, outcome, noted, cursors, closed, dirty,
      heap, sent, ops>>

\* Part XVI: the tags of a template parsed by a Grammar.
VARIABLES
    tpl         \* the grammar, the block tokens of the template, the result

vars == <<cascadeVars, sqlVars, tpl>>

\* No template is being parsed.
NoTemplate == [grammar |-> <<>>, token |-> <<>>, tokens |-> <<>>, result |-> <<>>]

Vals == {"foo1", "foo2", "bar"}

Rows == 1..NRows

ValRank(v) == CASE v = "bar" -> 1 [] v = "foo1" -> 2 [] v = "foo2" -> 3

\* on_update handlers (django.db.models.deletion)
CASCADE == "CASCADE"
DO_NOTHING == "DO_NOTHING"

\* A field: its name, the column that stores it, and for a foreign key the
\* column its to_field stores ("" for a plain field) and its on_update.
Fld(n, c, t, o) == [name |-> n, col |-> c, target |-> t, on_update |-> o]

\* tests/update_cascade/models.py: ModelA / ModelB
BasicSchema ==
    << Fld("a_field", "ModelA.a_field", "", DO_NOTHING),
       Fld("fk", "ModelB.fk_id", "ModelA.a_field", CASCADE) >>

\* tests/update_cascade/models.py: Tree (self-referencing)
TreeSchema ==
    << Fld("name", "Tree.name", "", DO_NOTHING),
       Fld("parent", "Tree.parent_id", "Tree.name", CASCADE) >>

\* tests/update_cascade/models.py: RecursiveRef1 / RecursiveRef2. rev_fk has
\* aux_field='name': it is stored in RecursiveRef1.name.
RecursiveSchema ==
    << Fld("name", "RecursiveRef1.name", "", DO_NOTHING),
       Fld("rev_fk", "RecursiveRef1.name", "RecursiveRef2.fk_id", CASCADE),
       Fld("fk", "RecursiveRef2.fk_id", "RecursiveRef1.name", CASCADE) >>

\* tests/update_cascade/models.py: Country / City / Street, the composite
\* key of Street.city reduced to its country column.
ChainSchema ==
    << Fld("name", "Country.name", "", DO_NOTHING),
       Fld("country", "City.country_id", "Country.name", CASCADE),
       Fld("city", "Street.city_country", "City.country_id", CASCADE) >>

Schemas == {BasicSchema, TreeSchema, RecursiveSchema, ChainSchema}

SeqRange(s) == {s[i] : i \in 1..Len(s)}

\* The columns a Collector can read or write: those storing a foreign key.
FkCols(sch) == {f.col : f \in {g \in SeqRange(sch) : g.target # ""}}

\* Collector._fields_concrete_intersection: the foreign key related_field
\* points at the model of field and shares a concrete column with it.
FieldsConcreteIntersection(field, related_field) ==
    related_field.target # "" /\ related_field.target = field.col

\* Collector.collect_possible_cascades: the foreign keys that reference
\* field and do not have on_update=DO_NOTHING, in related-object order.
CollectPossibleCascades(sch, field) ==
    SelectSeq(sch, LAMBDA rel :
        /\ rel.on_update # DO_NOTHING
        /\ FieldsConcreteIntersection(field, rel))

\* qs = model._base_manager.filter(field__in=from_vals): the matching rows.
Matching(d, field, from_vals) ==
    {r \in Rows : d[field.col][r] \in from_vals}

\* Collector.new_from_vals + relabel_vals: the distinct values of the
\* referenced column over the matching rows. Without cascades values()
\* selects every column and relabel_vals maps each row to {}: what is left
\* is whether a row matched.
RelabeledNewFromVals(d, field, from_vals, possible_cascades) ==
    IF Len(possible_cascades) = 0
    THEN IF Matching(d, field, from_vals) # {} THEN {"{}"} ELSE {}
    ELSE {d[field.col][r] : r \in Matching(d, field, from_vals)}

\* Mutant: the UPDATE loses its WHERE clause.
QsUpdateAll(d, field, from_vals, to_val) ==
    [d EXCEPT ![field.col] = [r \in Rows |-> to_val]]

\* Mutant: the UPDATE is never sent.
QsUpdateSkipped(d, field, from_vals, to_val) == d

\* qs.update(**to_val)
QsUpdate(d, field, from_vals, to_val) ==
    [d EXCEPT ![field.col] =
        [r \in Rows |-> IF d[field.col][r] \in from_vals THEN to_val
                        ELSE d[field.col][r]]]

\* One entry of Collector.updates: the closures built by collect().
UpdateEntry(sch, field, from_vals, to_val) ==
    [field |-> field, from_vals |-> from_vals, to_val |-> to_val,
     possible_cascades |-> CollectPossibleCascades(sch, field)]

\* A running Collector.update(): the for loop over self.updates.
Frame(updates) ==
    [updates |-> updates, idx |-> 1, phase |-> "capture",
     new_from_vals |-> {}, todo |-> <<>>, uid |-> 0, snap |-> <<>>]

Top == stack[Len(stack)]

SetTop(f) == [stack EXCEPT ![Len(stack)] = f]

CascadeInit ==
    /\ schema \in Schemas
    /\ db \in [FkCols(schema) -> [Rows -> Vals]]
    \* rows are stored in no particular order: one representative of each
    \* multiset of values
    /\ \A c \in FkCols(schema) : \A r \in 1..(NRows - 1) :
            ValRank(db[c][r]) <= ValRank(db[c][r + 1])
    /\ stack = << Frame(<<>>) >>
    /\ cpc = "build"
    /\ clog = <<>>
    /\ nextId = 1
    /\ db0 = db

\* The arguments of collect(): values are opaque, so from_vals holds foo1
\* and to_val is either one of from_vals or not.
FromSets == {{"foo1"}, {"foo1", "foo2"}}

ToVals == {"foo1", "bar"}

\* Collector.collect(field, from_vals, to_val)
Collect(field, from_vals, to_val) ==
    /\ cpc = "build"
    /\ field.target # ""
    /\ Len(stack[1].updates) < MaxUpdates
    /\ stack' = << [stack[1] EXCEPT !.updates =
                        Append(@, UpdateEntry(schema, field, from_vals, to_val))] >>
    /\ UNCHANGED <<schema, db, cpc, clog, nextId, db0, sqlVars, tpl>>

\* Collector.collect_field_update(field, from_vals, to_val): one collect()
\* per foreign key that references field.
CollectFieldUpdate(field, from_vals, to_val) ==
    LET cascades == CollectPossibleCascades(schema, field)
        entries == [i \in 1..Len(cascades) |->
                        UpdateEntry(schema, cascades[i], from_vals, to_val)]
    IN  /\ cpc = "build"
        /\ Len(cascades) > 0
        /\ Len(stack[1].updates) + Len(cascades) <= MaxUpdates
        /\ stack' = << [stack[1] EXCEPT !.updates = @ \o entries] >>
        /\ UNCHANGED <<schema, db, cpc, clog, nextId, db0, sqlVars, tpl>>

\* Collector.update() is entered.
StartUpdate ==
    /\ cpc = "build"
    /\ cpc' = "run"
    /\ UNCHANGED <<schema, db, stack, clog, nextId, db0, sqlVars, tpl>>

\* Mutant: build_cascade_impl.execute without its "if new_from_vals".
CascadeTodoUnchecked(u, new_from_vals) == u.possible_cascades

\* build_cascade_impl.execute: the cascades to run for a captured set; none
\* when it is empty (and none for lambda x: None).
CascadeTodo(u, new_from_vals) ==
    IF new_from_vals # {} THEN u.possible_cascades ELSE <<>>

\* Mutant: new_from_vals is left a lazy queryset, evaluated when the
\* cascade reads it.
CascadeFromValsLazy(frame, d) ==
    LET u == frame.updates[frame.idx]
    IN  RelabeledNewFromVals(d, u.field, u.from_vals, u.possible_cascades)

\* The values build_cascade_impl hands on: the list captured by
\* build_update_impl before qs.update() ran.
CascadeFromVals(frame, d) == frame.new_from_vals

\* build_update_impl.execute, first statement: the SELECT DISTINCT of the
\* identifying values, evaluated at once by list().
Capture ==
    /\ cpc = "run"
    /\ Top.phase = "capture"
    /\ Top.idx <= Len(Top.updates)
    /\ LET u == Top.updates[Top.idx]
           nfv == RelabeledNewFromVals(db, u.field, u.from_vals,
                                       u.possible_cascades)
       IN  /\ stack' = SetTop([Top EXCEPT
                    !.new_from_vals = nfv,
                    !.uid = nextId,
                    !.snap = db,
                    !.phase = IF nfv # {} THEN "write" ELSE "cascade",
                    !.todo = CascadeTodo(u, nfv)])
           /\ clog' = Append(clog, [kind |-> "select", uid |-> nextId,
                                     vals |-> nfv])
    /\ nextId' = nextId + 1
    /\ UNCHANGED <<schema, db, cpc, db0, sqlVars, tpl>>

\* build_update_impl.execute: if new_from_vals: qs.update(**to_val)
Write ==
    /\ cpc = "run"
    /\ Top.phase = "write"
    /\ LET u == Top.updates[Top.idx]
       IN  /\ db' = QsUpdate(db, u.field, u.from_vals, u.to_val)
           /\ stack' = SetTop([Top EXCEPT !.phase = "cascade"])
           /\ clog' = Append(clog, [kind |-> "update", uid |-> Top.uid,
                                     vals |-> {u.to_val}])
    /\ UNCHANGED <<schema, cpc, nextId, db0, sqlVars, tpl>>

\* cascade.rel.on_update.do_update(using, cascade, concrete_fields,
\* new_from_vals, to_val) for on_update=CASCADE: the referencing rows are
\* updated through a Collector of their own.
DoUpdate(cascade, new_from_vals, to_val) ==
    Frame(<< UpdateEntry(schema, cascade, new_from_vals, to_val) >>)

\* build_cascade_impl.execute: one turn of its for loop.
Cascade ==
    /\ cpc = "run"
    /\ Top.phase = "cascade"
    /\ Len(Top.todo) > 0
    /\ Len(stack) < MaxDepth
    /\ LET u == Top.updates[Top.idx]
           vals == CascadeFromVals(Top, db)
       IN  /\ stack' = Append(SetTop([Top EXCEPT !.todo = Tail(@)]),
                              DoUpdate(Head(Top.todo), vals, u.to_val))
           /\ clog' = Append(clog, [kind |-> "cascade", uid |-> Top.uid,
                                     vals |-> vals])
    /\ UNCHANGED <<schema, db, cpc, nextId, db0, sqlVars, tpl>>

\* Collector.update: cascade_impl has returned, the loop goes on.
NextUpdate ==
    /\ cpc = "run"
    /\ Top.phase = "cascade"
    /\ Len(Top.todo) = 0
    /\ stack' = SetTop([Top EXCEPT !.idx = @ + 1, !.phase = "capture"])
    /\ UNCHANGED <<schema, db, cpc, clog, nextId, db0, sqlVars, tpl>>

\* Collector.update returns: to do_update's caller, or to the user.
Return ==
    /\ cpc = "run"
    /\ Top.phase = "capture"
    /\ Top.idx > Len(Top.updates)
    /\ IF Len(stack) > 1
       THEN stack' = SubSeq(stack, 1, Len(stack) - 1) /\ cpc' = cpc
       ELSE stack' = stack /\ cpc' = "done"
    /\ UNCHANGED <<schema, db, clog, nextId, db0, sqlVars, tpl>>

CascadeNext ==
    \/ \E f \in SeqRange(schema), fv \in FromSets, tv \in ToVals :
            Collect(f, fv, tv)
    \/ \E f \in SeqRange(schema), fv \in FromSets, tv \in ToVals :
            CollectFieldUpdate(f, fv, tv)
    \/ StartUpdate
    \/ Capture
    \/ Write
    \/ Cascade
    \/ NextUpdate
    \/ Return


(***************************************************************************)
(* Claims about the collector.                                              *)
(***************************************************************************)
LogIdx == 1..Len(clog)

\* C3: for each registered update the steps run in the order capture,
\* UPDATE, cascade: an UPDATE statement directly follows the capture of the
\* same update, a cascade call comes after the capture and the UPDATE of its
\* update, and both happen only if the captured set was not empty.
C3_CaptureUpdateCascadeOrder ==
    \A i \in LogIdx :
        /\ clog[i].kind = "update" =>
                /\ i > 1
                /\ clog[i - 1].kind = "select"
                /\ clog[i - 1].uid = clog[i].uid
                /\ clog[i - 1].vals # {}
        /\ clog[i].kind = "cascade" =>
                \E k \in 1..(i - 1) :
                    /\ clog[k].kind = "update" /\ clog[k].uid = clog[i].uid
                    /\ \E j \in 1..(k - 1) :
                            /\ clog[j].kind = "select"
                            /\ clog[j].uid = clog[i].uid
                            /\ clog[j].vals # {}

\* C3 witness: update() has finished and ran a cascade, and also handled an
\* update whose captured set was empty.
C3_Witness ==
    /\ cpc = "done"
    /\ \E i \in LogIdx : clog[i].kind = "cascade"
    /\ \E i \in LogIdx : clog[i].kind = "select" /\ clog[i].vals = {}

\* What the update a frame is executing matched in the rows d.
CapturedIn(frame, d) ==
    LET u == frame.updates[frame.idx]
    IN  RelabeledNewFromVals(d, u.field, u.from_vals, u.possible_cascades)

\* C4: the values a cascade was called with are the set that its update
\* matched in the rows as they were before the update's own write, whatever
\* has been written since.
C4_CascadeUsesCapturedSet ==
    \A k \in 2..Len(stack) :
        stack[k].updates[1].from_vals = CapturedIn(stack[k - 1], stack[k - 1].snap)

\* C4 witness: a cascade is running and its update no longer matches the
\* set it was called with.
C4_Witness ==
    \E k \in 2..Len(stack) :
        /\ stack[k].updates[1].from_vals # {}
        /\ CapturedIn(stack[k - 1], db) # stack[k].updates[1].from_vals

\* C5: after one collect(field, from_vals, to_val) and update(), every row
\* whose value of the field was in from_vals holds to_val and every other
\* row holds the value it had.
C5_UpdatedRowsHoldToVal ==
    (cpc = "done" /\ Len(stack[1].updates) = 1) =>
        LET u == stack[1].updates[1]
        IN  \A r \in Rows :
                db[u.field.col][r] =
                    IF db0[u.field.col][r] \in u.from_vals THEN u.to_val
                    ELSE db0[u.field.col][r]

\* C5 witness: the update changed a row and left another one alone.
C5_Witness ==
    /\ cpc = "done"
    /\ Len(stack[1].updates) = 1
    /\ LET c == stack[1].updates[1].field.col
       IN  /\ \E r \in Rows : db[c][r] # db0[c][r]
           /\ \E r \in Rows : db0[c][r] \notin stack[1].updates[1].from_vals

CascadingFks == {f \in SeqRange(schema) : f.target # "" /\ f.on_update # DO_NOTHING}

RECURSIVE Reaches(_, _, _)
\* Whether cascades lead from field f to a field storing column c in at most
\* n steps.
Reaches(f, c, n) ==
    /\ n > 0
    /\ \E g \in SeqRange(CollectPossibleCascades(schema, f)) :
            g.col = c \/ Reaches(g, c, n - 1)

MaxIn == 2          \* values given to an `in` lookup

\* The result of an as_sql(): SQL as a sequence of fragments, one fragment
\* "%s" per placeholder, and the params; or the EmptyResultSet signal.
Sql(sql, params) == [raised |-> "", sql |-> sql, params |-> params]

Raised(exc) == [raised |-> exc, sql |-> <<>>, params |-> <<>>]

EmptyResultSet == "EmptyResultSet"

\* connection.ops.quote_name
QuoteName(name) == "\"" \o name \o "\""

\* SQLCompiler.quote_name_unless_alias: a table name is quoted, an alias that
\* is not a table name is not.
QuoteNameUnlessAlias(q, name) ==
    IF /\ name \in DOMAIN q.alias_map
       /\ \A a \in DOMAIN q.alias_map : q.alias_map[a].table_name # name
    THEN name
    ELSE QuoteName(name)

\* Col(alias, field)
Col(alias, column) == [kind |-> "col", alias |-> alias, column |-> column]

\* Col.as_sql: "%s.%s" % (qn(alias), qn(column)), []
ColAsSql(q, col) ==
    Sql(<<QuoteNameUnlessAlias(q, col.alias) \o "."
          \o QuoteNameUnlessAlias(q, col.column)>>, <<>>)

\* SimpleLookup(constraint_class, lhs, field, value): has_value is FALSE for
\* value=NoValueMarker.
Lookup(type, lhs, has_value, value) ==
    [kind |-> "lookup", type |-> type, lhs |-> lhs,
     has_value |-> has_value, value |-> value, rhs_query |-> <<>>]

\* A lookup whose value is a Query (pk__in=query).
QueryLookup(type, lhs, subquery) ==
    [Lookup(type, lhs, TRUE, <<>>) EXCEPT !.rhs_query = <<subquery>>]

\* supports_nesting of the lookup classes (Div3Lookup and Lower of
\* tests/custom_lookups/models.py set it).
SupportsNesting(type) == type \in {"div3", "lower"}

\* supports_filtering of the lookup classes (Lower clears it).
SupportsFiltering(type) == type # "lower"

LookupError == "LookupError"

\* What a constructor call left: the object built, or the exception raised
\* and no object.
Built(obj) == [raised |-> "", lookup |-> <<obj>>]

NotBuilt(exception) == [raised |-> exception, lookup |-> <<>>]

\* Mutant: SimpleLookup.__init__ without its two checks.
SimpleLookupUnchecked(type, lhs, has_value, value) ==
    Built(Lookup(type, lhs, has_value, value))

\* SimpleLookup.__init__(constraint_class, lhs, field, value): with a value
\* the class must support filtering, without one it must support nesting.
SimpleLookup(type, lhs, has_value, value) ==
    IF has_value
    THEN IF ~SupportsFiltering(type) THEN NotBuilt(LookupError)
         ELSE Built(Lookup(type, lhs, has_value, value))
    ELSE IF ~SupportsNesting(type) THEN NotBuilt(LookupError)
    ELSE Built(Lookup(type, lhs, has_value, value))

\* Field.get_db_prep_lookup(lookup_type, value, prepared=True): the list of
\* params, one per value for `in` and `range`, none for isnull.
FieldGetDbPrepLookup(type, value) ==
    IF type = "isnull" THEN <<>> ELSE value

\* ', '.join('%s' for p in params) between parentheses
RECURSIVE InPlaceholders(_)
InPlaceholders(n) ==
    IF n = 0 THEN <<>>
    ELSE IF n = 1 THEN <<"%s">>
    ELSE <<"%s", ",">> \o InPlaceholders(n - 1)

\* Mutant: In.get_db_prep_lookup without its "if not params" check.
GetDbPrepLookupNoEmptyCheck(type, value) ==
    LET prepared(params) ==
            IF type = "in"
            THEN Sql(<<"(">> \o InPlaceholders(Len(params)) \o <<")">>, params)
            ELSE Sql(<<"%s">>, params)
    IN  prepared(FieldGetDbPrepLookup(type, value))

\* SimpleLookup.get_db_prep_lookup, and In.get_db_prep_lookup, which raises
\* EmptyResultSet for an empty list of params.
GetDbPrepLookup(type, value) ==
    LET prepared(params) ==
            IF type = "in"
            THEN IF Len(params) = 0 THEN Raised(EmptyResultSet)
                 ELSE Sql(<<"(">> \o InPlaceholders(Len(params)) \o <<")">>,
                          params)
            ELSE Sql(<<"%s">>, params)
    IN  prepared(FieldGetDbPrepLookup(type, value))

\* The lookup types of the subclasses of DateLookup.
DateParts == {"month", "day", "week_day", "hour", "minute", "second"}

\* get_rhs_op of the lookup classes.
GetRhsOp(type, rhs) ==
    CASE type = "in" -> <<"IN">> \o rhs
      [] type \in {"range", "year"} -> <<"BETWEEN">> \o rhs \o <<"AND">> \o rhs
      [] type \in DateParts -> <<"=">> \o rhs
      [] type = "div3" -> <<"%% 3 =">> \o rhs
      [] type = "div2" -> <<"%% 2 =">> \o rhs
      [] OTHER -> <<type>> \o rhs      \* connection.operators[lookup_type] % rhs

\* RefSQL(sql, params, output_type) of tests/custom_lookups/tests.py: a
\* column node written in SQL that carries params of its own.
RefSQL(params) == [kind |-> "refsql", params |-> params]

\* RefSQL.as_sql: the SQL with one placeholder per param, and the params.
RefSQLAsSql(col) ==
    Sql(<<"case when">> \o [i \in 1..Len(col.params) |-> "%s"] \o <<"end">>,
        col.params)

\* timezone.get_current_timezone_name(), a value apart from every other param
Tzname == 200

\* connection.ops.datetime_extract_sql(lookup_type, field_name, tzname): the
\* extraction, with the time zone as a param when settings.USE_TZ is set.
DatetimeExtractSql(conn, extract_type, field_name) ==
    LET extract(field, params) ==
            IF extract_type = "week_day"
            THEN Sql(<<"EXTRACT('dow' FROM">> \o field \o <<") + 1">>, params)
            ELSE Sql(<<"EXTRACT('" \o extract_type \o "' FROM">> \o field
                     \o <<")">>, params)
    IN  IF conn.use_tz
        THEN extract(field_name \o <<"AT TIME ZONE", "%s">>, <<Tzname>>)
        ELSE extract(field_name, <<>>)

RECURSIVE LookupAsSql(_, _, _)
RECURSIVE AsSql(_, _, _)
\* The as_sql of the left-hand side: a Col, a RefSQL or a lookup used in
\* nested context.
LhsAsSql(q, conn, lhs) ==
    CASE lhs.kind = "col" -> ColAsSql(q, lhs)
      [] lhs.kind = "refsql" -> RefSQLAsSql(lhs)
      [] OTHER -> LookupAsSql(q, conn, lhs)

\* SimpleLookup.process_lhs: the SQL and the params of the left-hand side.
\* DateLookup.process_lhs wraps the SQL in the extraction of the date part
\* and returns the params of the extraction.
ProcessLhs(q, conn, l) ==
    LET date(lhs) ==
            IF lhs.raised # "" THEN lhs
            ELSE DatetimeExtractSql(conn, l.type, lhs.sql)
    IN  IF l.type \in DateParts THEN date(LhsAsSql(q, conn, l.lhs))
        ELSE LhsAsSql(q, conn, l.lhs)

\* SimpleLookup.process_rhs: a value with get_compiler is compiled and put
\* between parentheses, any other value is prepared by get_db_prep_lookup.
ProcessRhs(conn, l) ==
    LET nested(res) ==
            IF res.raised # "" THEN res
            ELSE Sql(<<"(">> \o res.sql \o <<")">>, res.params)
    IN  IF Len(l.rhs_query) > 0
        THEN nested(AsSql(l.rhs_query[1], conn, TRUE).res)
        ELSE GetDbPrepLookup(l.type, l.value)

\* as_nested_sql of Div3Lookup and Lower (SimpleLookup.as_nested_sql is
\* process_lhs).
LookupAsNestedSql(q, conn, l) ==
    LET nested(lhs) ==
            CASE l.type = "div3" -> Sql(lhs.sql \o <<"%% 3">>, lhs.params)
              [] l.type = "lower" ->
                    Sql(<<"lower(">> \o lhs.sql \o <<")">>, lhs.params)
              [] OTHER -> lhs
    IN  nested(ProcessLhs(q, conn, l))

\* SimpleLookup.as_sql with get_lhs_rhs: the right-hand side is processed
\* first, then the left-hand side, whose params come first.
LookupAsSql(q, conn, l) ==
    IF ~l.has_value THEN LookupAsNestedSql(q, conn, l)
    ELSE LET lhs_rhs(rhs, lhs) ==
                IF rhs.raised # "" THEN rhs
                ELSE IF lhs.raised # "" THEN lhs
                ELSE IF l.type = "isnull"
                     THEN Sql(lhs.sql \o (IF l.value[1] THEN <<"IS NULL">>
                                          ELSE <<"IS NOT NULL">>), lhs.params)
                ELSE Sql(lhs.sql \o GetRhsOp(l.type, rhs.sql),
                         lhs.params \o rhs.params)
         IN  lhs_rhs(ProcessRhs(conn, l), ProcessLhs(q, conn, l))

RECURSIVE WhereAsSql(_, _, _)
\* WhereNode.as_sql for the conjunction add_filter builds: the children's SQL
\* joined by AND; EmptyResultSet of a child makes the conjunction empty.
WhereAsSql(q, conn, where) ==
    IF Len(where) = 0 THEN Sql(<<>>, <<>>)
    ELSE LET conj(first, rest) ==
                IF first.raised # "" THEN first
                ELSE IF rest.raised # "" THEN rest
                ELSE IF Len(rest.sql) = 0 THEN first
                ELSE Sql(first.sql \o <<"AND">> \o rest.sql,
                         first.params \o rest.params)
         IN  conj(LookupAsSql(q, conn, Head(where)),
                  WhereAsSql(q, conn, Tail(where)))

(***************************************************************************)
(* Part III.  The Query object the compilers work on                        *)
(* (django/db/models/sql/query.py), as far as compiler.py uses it.          *)
(***************************************************************************)
None == "None"

\* high_mark of a query without upper limit (None in the code).
NoHighMark == -1

INNER == "INNER JOIN"
LOUTER == "LEFT OUTER JOIN"

\* A model field: a foreign key names the model it points at in rel.
Field(name, column, null, rel) ==
    [name |-> name, column |-> column, null |-> null, rel |-> rel]

\* tests/custom_lookups/models.py: Author (ordering = ('name',)) and Book
\* (author = ForeignKey(Author, null=True)); and three models whose default
\* orderings follow their foreign keys round a loop: LoopX and LoopY order by
\* each other, LoopZ by itself; and RecursiveRef1 and RecursiveRef2 of
\* tests/update_cascade/models.py, which point at each other with unique
\* foreign keys, rev_fk with null=True.
Meta ==
    [Author |-> [db_table |-> "author", pk |-> "id", ordering |-> << [name |-> <<"name">>, desc |-> FALSE] >>,
                 fields |-> << Field("id", "id", FALSE, ""),
                               Field("name", "name", FALSE, ""),
                               Field("age", "age", FALSE, "") >>],
     Book |-> [db_table |-> "book", pk |-> "id", ordering |-> <<>>,
               fields |-> << Field("id", "id", FALSE, ""),
                             Field("author", "author_id", TRUE, "Author"),
                             Field("pages", "pages", FALSE, "") >>],
     LoopX |-> [db_table |-> "loopx", pk |-> "id",
                ordering |-> << [name |-> <<"y">>, desc |-> FALSE] >>,
                fields |-> << Field("id", "id", FALSE, ""),
                              Field("y", "y_id", FALSE, "LoopY") >>],
     LoopY |-> [db_table |-> "loopy", pk |-> "id",
                ordering |-> << [name |-> <<"x">>, desc |-> FALSE] >>,
                fields |-> << Field("id", "id", FALSE, ""),
                              Field("x", "x_id", FALSE, "LoopX") >>],
     LoopZ |-> [db_table |-> "loopz", pk |-> "id",
                ordering |-> << [name |-> <<"z">>, desc |-> TRUE] >>,
                fields |-> << Field("id", "id", FALSE, ""),
                              Field("z", "z_id", TRUE, "LoopZ") >>],
     RecursiveRef1 |->
               [db_table |-> "recursiveref1", pk |-> "id", ordering |-> <<>>,
                fields |-> << Field("id", "id", FALSE, ""),
                              Field("name", "name", FALSE, ""),
                              Field("rev_fk", "rev_fk_id", TRUE,
                                    "RecursiveRef2") >>],
     RecursiveRef2 |->
               [db_table |-> "recursiveref2", pk |-> "id", ordering |-> <<>>,
                fields |-> << Field("id", "id", FALSE, ""),
                              Field("fk", "fk_id", FALSE,
                                    "RecursiveRef1") >>]]

\* The foreign keys declared with unique=True.
UniqueFields ==
    << [model |-> "RecursiveRef1", field |-> "rev_fk"],
       [model |-> "RecursiveRef2", field |-> "fk"] >>

\* The models of tests/custom_lookups.
Models == {"Author", "Book"}

GetField(model, name) ==
    CHOOSE f \in SeqRange(Meta[model].fields) : f.name = name

\* query.select_related: False, True (every relation that is not nullable is
\* followed), or the relations to follow: the dictionary of dictionaries of
\* the code as the set of its paths, {"a": {"b": {}}} as {<<"a", "b">>}.
NoSelectRelated == [on |-> FALSE, restricted |-> FALSE, requested |-> {}]

SelectRelatedAll == [on |-> TRUE, restricted |-> FALSE, requested |-> {}]

SelectRelatedFields(paths) ==
    [on |-> paths # {}, restricted |-> TRUE, requested |-> paths]

\* The keys of a dictionary of requested relations.
Keys(requested) == {p[1] : p \in requested}

\* requested.get(name, {})
RequestedGet(requested, name) ==
    {Tail(p) : p \in {r \in requested : r[1] = name /\ Len(r) > 1}}

\* Query(model): a query with no tables yet. group_by is <<>> for None and
\* <<list>> for a list of (alias, column) pairs; only_load holds the columns
\* of the model's table that deferred_to_columns() names as loaded, none
\* when no field is deferred.
NewQuery(model) ==
    [model |-> model, tables |-> <<>>, alias_map |-> <<>>,
     alias_refcount |-> <<>>, alias_prefix |-> "T",
     where |-> <<>>, order_by |-> <<>>, default_ordering |-> TRUE,
     distinct |-> FALSE, distinct_fields |-> <<>>, group_by |-> <<>>,
     select |-> <<>>, default_cols |-> TRUE,
     aggregate_select |-> <<>>, only_load |-> {},
     select_related |-> NoSelectRelated, related_select_cols |-> <<>>,
     max_depth |-> 5,
     low_mark |-> 0, high_mark |-> NoHighMark,
     ordering_aliases |-> <<>>, included_inherited_models |-> FALSE,
     values |-> <<>>, related_updates |-> <<>>, related_ids |-> <<>>,
     select_for_update |-> FALSE, select_for_update_nowait |-> FALSE]

\* JoinInfo (sql/constants.py)
JoinInfo(table_name, rhs_alias, join_type, lhs_alias, lhs_join_col, rhs_join_col, nullable) ==
    [table_name |-> table_name, rhs_alias |-> rhs_alias,
     join_type |-> join_type, lhs_alias |-> lhs_alias,
     lhs_join_col |-> lhs_join_col, rhs_join_col |-> rhs_join_col,
     nullable |-> nullable]

Aliases(q) == DOMAIN q.alias_map

\* Query.ref_alias
RefAlias(q, alias) ==
    [q EXCEPT !.alias_refcount[alias] = @ + 1]

\* Query.unref_alias
UnrefAlias(q, alias) ==
    [q EXCEPT !.alias_refcount[alias] = @ - 1]

\* Query.reset_refcounts(to_counts): every alias is unreferenced down to the
\* count it had in to_counts, 0 if it was not there.
ResetRefcounts(q, to_counts) ==
    [q EXCEPT !.alias_refcount =
        [a \in DOMAIN q.alias_refcount |->
            IF a \in DOMAIN to_counts THEN to_counts[a] ELSE 0]]

\* Query.count_active_tables
CountActiveTables(q) ==
    Cardinality({a \in DOMAIN q.alias_refcount : q.alias_refcount[a] > 0})

\* The first alias, in the order of q.tables, that satisfies P.
FirstAlias(q, P(_)) ==
    LET idx == {i \in 1..Len(q.tables) : P(q.tables[i])}
    IN  IF idx = {} THEN None
        ELSE q.tables[CHOOSE i \in idx : \A j \in idx : i <= j]

\* Query.table_alias(table, create=True): the table's own name the first
\* time, then the alias prefix and a number.
NewAlias(q, table) ==
    IF \E a \in Aliases(q) : q.alias_map[a].table_name = table
    THEN q.alias_prefix \o ToString(Cardinality(Aliases(q)) + 1)
    ELSE table

\* Mutant: Query.join that gives an alias it reuses the join type asked for
\* by this call.
JoinResettingType(q, lhs, table, lhs_col, col, promote, nullable) ==
    LET same(a) == /\ a \in Aliases(q)
                   /\ q.alias_map[a].lhs_alias = lhs
                   /\ q.alias_map[a].table_name = table
                   /\ q.alias_map[a].lhs_join_col = lhs_col
                   /\ q.alias_map[a].rhs_join_col = col
        join_type ==
            IF lhs = None THEN None
            ELSE IF promote THEN LOUTER
            ELSE INNER
        joined(reuse, alias) ==
            IF reuse # None
            THEN [q |-> [RefAlias(q, reuse) EXCEPT
                            !.alias_map[reuse].join_type = join_type],
                  alias |-> reuse]
            ELSE [q |-> [q EXCEPT
                            !.tables = Append(@, alias),
                            !.alias_map = (alias :> JoinInfo(table, alias,
                                join_type, lhs, lhs_col, col, nullable)) @@ @,
                            !.alias_refcount = (alias :> 1) @@ @],
                  alias |-> alias]
    IN  joined(FirstAlias(q, same), NewAlias(q, table))

\* Query.join(connection, promote, nullable): an alias with the same
\* connection is reused and referenced once more; else a new alias joins.
\* Returns the query and the alias.
Join(q, lhs, table, lhs_col, col, promote, nullable) ==
    LET same(a) == /\ a \in Aliases(q)
                   /\ q.alias_map[a].lhs_alias = lhs
                   /\ q.alias_map[a].table_name = table
                   /\ q.alias_map[a].lhs_join_col = lhs_col
                   /\ q.alias_map[a].rhs_join_col = col
        join_type ==
            IF lhs = None THEN None
            ELSE IF promote \/ q.alias_map[lhs].join_type = LOUTER THEN LOUTER
            ELSE INNER
        joined(reuse, alias) ==
            IF reuse # None
            THEN [q |-> RefAlias(q, reuse), alias |-> reuse]
            ELSE [q |-> [q EXCEPT
                            !.tables = Append(@, alias),
                            !.alias_map = (alias :> JoinInfo(table, alias,
                                join_type, lhs, lhs_col, col, nullable)) @@ @,
                            !.alias_refcount = (alias :> 1) @@ @],
                  alias |-> alias]
    IN  joined(FirstAlias(q, same), NewAlias(q, table))

\* Query.get_initial_alias: the base table, referenced once more, or joined
\* when the query has no table yet.
GetInitialAlias(q) ==
    IF Len(q.tables) > 0
    THEN [q |-> RefAlias(q, q.tables[1]), alias |-> q.tables[1]]
    ELSE Join(q, None, Meta[q.model].db_table, None, None, FALSE, FALSE)

RECURSIVE PromoteJoins(_, _)
\* Query.promote_joins(aliases): a join that is nullable or hangs on a LEFT
\* OUTER join becomes LEFT OUTER, and so do then the joins hanging on it.
PromoteJoins(q, aliases) ==
    IF Len(aliases) = 0 THEN q
    ELSE LET alias == Head(aliases)
             join == q.alias_map[alias]
             parent_louter == /\ join.lhs_alias # None
                              /\ q.alias_map[join.lhs_alias].join_type = LOUTER
             promote == /\ join.join_type # None
                        /\ join.join_type # LOUTER
                        /\ (join.nullable \/ parent_louter)
             children == SelectSeq(q.tables, LAMBDA a :
                            /\ a \in Aliases(q)
                            /\ q.alias_map[a].lhs_alias = alias
                            /\ a \notin SeqRange(aliases))
         IN  IF promote
             THEN PromoteJoins(
                    [q EXCEPT !.alias_map[alias].join_type = LOUTER],
                    Tail(aliases) \o children)
             ELSE PromoteJoins(q, Tail(aliases))

RECURSIVE SetupJoinsFrom(_, _, _, _, _)
\* Query.setup_joins(pieces, opts, alias): walks the relations named by
\* pieces, joining the related table at every foreign key. Returns the query,
\* the last field, its target column, the last model and the aliases joined.
SetupJoinsFrom(q, pieces, model, alias, joins) ==
    LET related(field, joined) ==
            IF Len(pieces) = 1
            THEN [q |-> joined.q, field |-> field,
                  target |-> Meta[field.rel].pk, opts |-> field.rel,
                  joins |-> Append(joins, joined.alias)]
            ELSE SetupJoinsFrom(joined.q, Tail(pieces), field.rel,
                                joined.alias, Append(joins, joined.alias))
        step(field) ==
            IF field.rel = ""
            THEN [q |-> q, field |-> field, target |-> field.column,
                  opts |-> model, joins |-> joins]
            ELSE related(field,
                         Join(q, alias, Meta[field.rel].db_table, field.column,
                              Meta[field.rel].pk, FALSE, field.null))
    IN  step(GetField(model, Head(pieces)))

SetupJoins(q, pieces, model, alias) ==
    SetupJoinsFrom(q, pieces, model, alias, <<alias>>)

\* Query.setup_inherited_models: without parent models it records the
\* initial alias, which get_initial_alias references once more.
SetupInheritedModels(q) ==
    [GetInitialAlias(q).q EXCEPT !.included_inherited_models = TRUE]

(***************************************************************************)
(* Part IV.  SQLCompiler (django/db/models/sql/compiler.py): SELECT.        *)
(* Every step takes the query and returns the query it leaves behind.       *)
(***************************************************************************)
FieldError == "FieldError"
NotImplementedError == "NotImplementedError"
DatabaseError == "DatabaseError"

\* select_related_descend(field, restricted, requested, load_fields): the
\* relation is followed when it is asked for by name, or when every relation
\* is asked for and it is not nullable.
SelectRelatedDescend(field, restricted, requested) ==
    /\ field.rel # ""
    /\ IF restricted THEN field.name \in Keys(requested) ELSE ~field.null

\* field.related_query_name() of a foreign key of the model without
\* related_name: the name of the model in lower case.
RelatedQueryName(model) ==
    CASE model = "RecursiveRef1" -> "recursiveref1"
      [] model = "RecursiveRef2" -> "recursiveref2"

\* select_related_descend(field, restricted, requested, load_fields,
\* reverse=True), which fill_related_selections calls when restricted: the
\* reverse relation is followed when it is asked for by name.
SelectRelatedDescendReverse(model, requested) ==
    RelatedQueryName(model) \in Keys(requested)

\* "(o.field, o.model) for o in opts.get_all_related_objects() if
\* o.field.unique": the unique foreign keys that point at opts.
RelatedFields(opts) ==
    SelectSeq(UniqueFields, LAMBDA o : GetField(o.model, o.field).rel = opts)

\* get_default_columns(start_alias=alias, opts=opts): the columns of a
\* related model on the alias it was joined with.
RelatedDefaultColumns(q, alias, opts) ==
    SelectSeq([i \in 1..Len(Meta[opts].fields) |->
                  <<alias, Meta[opts].fields[i].column>>],
              LAMBDA col : ~(/\ q.only_load # {}
                             /\ opts = q.model
                             /\ col[2] \notin q.only_load))

\* A call of query.join by fill_related_selections: the depth of the call,
\* the relation followed and the promote argument.
JoinRequest(cur_depth, f, reverse, promote) ==
    [depth |-> cur_depth, null |-> f.null, reverse |-> reverse,
     promote |-> promote]

RECURSIVE FillRelatedFromUnpromoted(_, _, _, _, _, _, _, _)
RECURSIVE FillRelatedFrom(_, _, _, _, _, _, _, _)
RECURSIVE FillRelatedReverse(_, _, _, _, _, _, _)
\* Mutant: fill_related_selections with "promote = f.null".
FillRelatedFromUnpromoted(s, opts, fields, root_alias, cur_depth, requested, restricted, nullable) ==
    LET rest(s1) ==
            FillRelatedFromUnpromoted(s1, opts, Tail(fields), root_alias,
                            cur_depth, requested, restricted, nullable)
        descend(f, promote, j) ==
            rest(FillRelatedFromUnpromoted(
                    [q |-> [j.q EXCEPT !.related_select_cols =
                        @ \o RelatedDefaultColumns(j.q, j.alias, f.rel)],
                     joins |-> Append(s.joins,
                        JoinRequest(cur_depth, f, FALSE, promote))],
                    f.rel, Meta[f.rel].fields, j.alias, cur_depth + 1,
                    RequestedGet(requested, f.name),
                    restricted, f.null \/ promote))
        follow(f, promote) ==
            descend(f, promote,
                    Join(s.q, root_alias, Meta[f.rel].db_table, f.column,
                         Meta[f.rel].pk, promote, FALSE))
    IN  IF ~restricted /\ s.q.max_depth # 0 /\ cur_depth > s.q.max_depth
        THEN s
        ELSE IF Len(fields) = 0
        THEN IF restricted
             THEN FillRelatedReverse(s, opts, RelatedFields(opts), root_alias,
                                     cur_depth, requested, nullable)
             ELSE s
        ELSE IF ~SelectRelatedDescend(Head(fields), restricted, requested)
        THEN rest(s)
        ELSE follow(Head(fields), Head(fields).null)

\* SQLCompiler.fill_related_selections below its set-up: the loop over the
\* fields of opts, then, when restricted, the loop over the unique reverse
\* relations. s holds the query and the calls of query.join made so far.
\* Every relation followed is joined to root_alias, with promote set when it
\* or a relation before it is nullable, its columns are added to
\* related_select_cols, and its own relations are followed in turn.
FillRelatedFrom(s, opts, fields, root_alias, cur_depth, requested, restricted, nullable) ==
    LET rest(s1) ==
            FillRelatedFrom(s1, opts, Tail(fields), root_alias, cur_depth,
                            requested, restricted, nullable)
        descend(f, promote, j) ==
            rest(FillRelatedFrom(
                    [q |-> [j.q EXCEPT !.related_select_cols =
                        @ \o RelatedDefaultColumns(j.q, j.alias, f.rel)],
                     joins |-> Append(s.joins,
                        JoinRequest(cur_depth, f, FALSE, promote))],
                    f.rel, Meta[f.rel].fields, j.alias, cur_depth + 1,
                    RequestedGet(requested, f.name),
                    restricted, f.null \/ promote))
        follow(f, promote) ==
            descend(f, promote,
                    Join(s.q, root_alias, Meta[f.rel].db_table, f.column,
                         Meta[f.rel].pk, promote, FALSE))
    IN  IF ~restricted /\ s.q.max_depth # 0 /\ cur_depth > s.q.max_depth
        THEN s
        ELSE IF Len(fields) = 0
        THEN IF restricted
             THEN FillRelatedReverse(s, opts, RelatedFields(opts), root_alias,
                                     cur_depth, requested, nullable)
             ELSE s
        ELSE IF ~SelectRelatedDescend(Head(fields), restricted, requested)
        THEN rest(s)
        ELSE follow(Head(fields), nullable \/ Head(fields).null)

\* The second loop of fill_related_selections, over related_fields: every
\* unique reverse relation asked for is joined to root_alias with
\* promote=True, and the relations of its model are followed from the alias
\* named as its table, with nullable set.
FillRelatedReverse(s, opts, related_fields, root_alias, cur_depth, requested, nullable) ==
    LET rest(s1) ==
            FillRelatedReverse(s1, opts, Tail(related_fields), root_alias,
                               cur_depth, requested, nullable)
        descend(f, model, j) ==
            rest(FillRelatedFrom(
                    [q |-> [j.q EXCEPT !.related_select_cols =
                        @ \o RelatedDefaultColumns(j.q, j.alias, model)],
                     joins |-> Append(s.joins,
                        JoinRequest(cur_depth, f, TRUE, TRUE))],
                    model, Meta[model].fields, Meta[model].db_table,
                    cur_depth + 1,
                    RequestedGet(requested, RelatedQueryName(model)),
                    TRUE, TRUE))
        follow(f, model) ==
            descend(f, model,
                    Join(s.q, root_alias, Meta[model].db_table, Meta[opts].pk,
                         f.column, TRUE, FALSE))
    IN  IF Len(related_fields) = 0 THEN s
        ELSE IF ~SelectRelatedDescendReverse(Head(related_fields).model,
                                             requested)
        THEN rest(s)
        ELSE follow(GetField(Head(related_fields).model,
                             Head(related_fields).field),
                    Head(related_fields).model)

\* SQLCompiler.fill_related_selections(): from the model of the query and its
\* initial alias, with related_select_cols emptied. Returns the query and
\* the calls of query.join it made.
FillRelated(q) ==
    LET from(start) ==
            FillRelatedFrom([q |-> [start.q EXCEPT
                                        !.related_select_cols = <<>>],
                             joins |-> <<>>],
                            q.model, Meta[q.model].fields, start.alias, 1,
                            q.select_related.requested,
                            q.select_related.restricted, FALSE)
    IN  from(GetInitialAlias(q))

\* The query fill_related_selections leaves behind.
FillRelatedSelections(q) == FillRelated(q).q

\* SQLCompiler.pre_sql_setup
PreSqlSetup(q) ==
    LET related(q2) ==
            IF q2.select_related.on /\ Len(q2.related_select_cols) = 0
            THEN FillRelatedSelections(q2)
            ELSE q2
        inherited(q1) ==
            related(IF Len(q1.select) = 0 /\ q1.default_cols
                       /\ ~q1.included_inherited_models
                    THEN SetupInheritedModels(q1)
                    ELSE q1)
    IN  inherited(IF Len(q.tables) = 0
                  THEN Join(q, None, Meta[q.model].db_table, None, None,
                            FALSE, FALSE).q
                  ELSE q)

\* "if table in only_load and column not in only_load[table]: continue" of
\* get_columns and get_default_columns: the column is left out of the
\* SELECT list.
Deferred(q, alias, column) ==
    /\ q.only_load # {}
    /\ q.alias_map[alias].table_name = Meta[q.model].db_table
    /\ column \notin q.only_load

\* The pairs (alias, column) of cols that are not deferred, in order.
Loaded(q, cols) ==
    SelectSeq(cols, LAMBDA col : ~Deferred(q, col[1], col[2]))

\* SQLCompiler.get_default_columns: every field of the model that is not
\* deferred, on the initial alias.
GetDefaultColumns(q) ==
    Loaded(q, [i \in 1..Len(Meta[q.model].fields) |->
                <<q.tables[1], Meta[q.model].fields[i].column>>])

\* An aggregate of query.aggregate_select: its alias, SQL function and the
\* (alias, column) pair it is computed on.
Aggregate(alias, function, col) ==
    [alias |-> alias, function |-> function, col |-> col]

\* Aggregate.as_sql(qn, connection) for a col that is a pair: the template
\* '%(function)s(%(field)s)' filled in, with no params.
AggregateAsSql(q, aggregate) ==
    aggregate.function \o "("
        \o QuoteNameUnlessAlias(q, aggregate.col[1]) \o "."
        \o QuoteNameUnlessAlias(q, aggregate.col[2]) \o ")"

\* The columns get_columns appends for query.aggregate_select: (None,
\* aggregate.as_sql(...), qn(alias)); as_sql returns the pair (sql, params),
\* which get_col_output formats with %s.
AggregateColumns(q) ==
    [i \in 1..Len(q.aggregate_select) |->
        <<None,
          "('" \o AggregateAsSql(q, q.aggregate_select[i]) \o "', [])",
          QuoteNameUnlessAlias(q, q.aggregate_select[i].alias)>>]

\* SQLCompiler.get_columns: the select list without its deferred columns,
\* or the default columns, then the aggregates and the columns of the
\* related models.
GetColumns(q) ==
    (IF Len(q.select) > 0 THEN Loaded(q, q.select)
     ELSE IF q.default_cols THEN GetDefaultColumns(q)
     ELSE <<>>)
    \o AggregateColumns(q)
    \o q.related_select_cols


\* get_order_dir(field, default): ORDER_DIR[default], reversed by a "-".
GetOrderDir(item, default) ==
    IF item.desc THEN (IF default = "ASC" THEN "DESC" ELSE "ASC") ELSE default

\* Mutant: _setup_joins that promotes no join.
JoinsToPromoteNone(q, joins) == <<>>

\* "joins_to_promote = [j for j in joins if self.query.alias_refcount[j] < 2]"
JoinsToPromote(q, joins) ==
    SelectSeq(joins, LAMBDA j : q.alias_refcount[j] < 2)

\* SQLCompiler._setup_joins
CompilerSetupJoins(q, pieces, opts, alias) ==
    LET promoted(sj) ==
            LET joins_to_promote == JoinsToPromote(sj.q, sj.joins)
                last == sj.joins[Len(sj.joins)]
            IN  [q |-> PromoteJoins(IF sj.field.rel = ""
                                    THEN RefAlias(sj.q, last) ELSE sj.q,
                                    joins_to_promote),
                 field |-> sj.field, col |-> sj.target, alias |-> last,
                 joins |-> sj.joins, opts |-> sj.opts]
        from(start) == promoted(SetupJoins(start.q, pieces, opts, start.alias))
    IN  from(IF alias = None THEN GetInitialAlias(q)
             ELSE [q |-> q, alias |-> alias])

RECURSIVE FinalJoinRemoval(_, _, _)
\* SQLCompiler._final_join_removal
FinalJoinRemoval(q, col, alias) ==
    LET join == q.alias_map[alias]
    IN  IF col # join.rhs_join_col
        THEN [q |-> q, col |-> col, alias |-> alias]
        ELSE FinalJoinRemoval(UnrefAlias(q, alias), join.lhs_join_col,
                              join.lhs_alias)

MaxRecursion == 6   \* nested calls the interpreter allows

RuntimeError == "RuntimeError"

\* Mutant: find_ordering_name without "if join_tuple in already_seen".
SeenBeforeNever(join_tuple, already_seen) == FALSE

\* "join_tuple in already_seen"
SeenBefore(join_tuple, already_seen) == join_tuple \in already_seen

RECURSIVE FindOrderingName(_, _, _, _, _, _, _)
RECURSIVE FindOrderingNames(_, _, _, _, _, _, _)
\* SQLCompiler.find_ordering_name: the (alias, column, direction) triples of
\* one ordering name. Ordering by a relation appends the default ordering of
\* the related model; already_seen is shared by the whole recursion. depth
\* counts the nested calls: beyond the interpreter's limit the call raises
\* RuntimeError (maximum recursion depth exceeded).
FindOrderingName(q, item, opts, alias, default_order, already_seen, depth) ==
    LET order == GetOrderDir(item, default_order)
        removed(fin) ==
            [q |-> fin.q, seen |-> already_seen,
             result |-> << <<fin.alias, fin.col, order>> >>, raised |-> ""]
        found(sj) ==
            LET join_tuple == [i \in 1..Len(sj.joins) |->
                                  sj.q.alias_map[sj.joins[i]].table_name]
            IN  IF sj.field.rel # "" /\ Len(sj.joins) > 1
                   /\ Len(Meta[sj.opts].ordering) > 0
                THEN IF SeenBefore(join_tuple, already_seen)
                     THEN [q |-> sj.q, seen |-> already_seen,
                           result |-> <<>>, raised |-> FieldError]
                     ELSE FindOrderingNames(sj.q, Meta[sj.opts].ordering,
                            sj.opts, sj.alias, order,
                            already_seen \cup {join_tuple}, depth + 1)
                ELSE removed(FinalJoinRemoval(sj.q, sj.col, sj.alias))
    IN  IF depth > MaxRecursion
        THEN [q |-> q, seen |-> already_seen, result |-> <<>>,
              raised |-> RuntimeError]
        ELSE found(CompilerSetupJoins(q, item.name, opts, alias))

\* The loop "for item in opts.ordering" of find_ordering_name.
FindOrderingNames(q, items, opts, alias, order, already_seen, depth) ==
    IF Len(items) = 0
    THEN [q |-> q, seen |-> already_seen, result |-> <<>>, raised |-> ""]
    ELSE LET more(first) ==
                IF first.raised # "" THEN first
                ELSE [FindOrderingNames(first.q, Tail(items), opts, alias,
                                        order, first.seen, depth)
                        EXCEPT !.result = first.result \o @]
         IN  more(FindOrderingName(q, Head(items), opts, alias, order,
                                   already_seen, depth))

\* The ordering get_ordering works on.
QueryOrdering(q) ==
    IF ~q.default_ordering THEN q.order_by
    ELSE IF Len(q.order_by) > 0 THEN q.order_by
    ELSE Meta[q.model].ordering

RECURSIVE GetOrderingFrom(_, _, _, _, _)
\* The loop of get_ordering over the ordering names: processed_pairs drops a
\* pair seen before, a DISTINCT query collects the pairs as ordering aliases.
GetOrderingFrom(q, ordering, processed_pairs, result, ordering_aliases) ==
    IF Len(ordering) = 0
    THEN [q |-> [q EXCEPT !.ordering_aliases = ordering_aliases],
          result |-> result, raised |-> ""]
    ELSE LET add(found) ==
          LET
             fresh == [i \in 1..Len(found.result) |->
                         /\ <<found.result[i][1], found.result[i][2]>>
                                \notin processed_pairs
                         /\ \A j \in 1..(i - 1) :
                                <<found.result[j][1], found.result[j][2]>> #
                                <<found.result[i][1], found.result[i][2]>>]
             idx == {i \in 1..Len(found.result) : fresh[i]}
             kept == SelectSeq([i \in 1..Len(found.result) |->
                                   <<i, found.result[i]>>],
                               LAMBDA e : e[1] \in idx)
             added == [i \in 1..Len(kept) |-> kept[i][2]]
             pairs == [i \in 1..Len(added) |-> <<added[i][1], added[i][2]>>]
          IN IF found.raised # ""
             THEN [q |-> found.q, result |-> <<>>, raised |-> found.raised]
             ELSE GetOrderingFrom(found.q, Tail(ordering),
                    processed_pairs \cup SeqRange(pairs),
                    result \o added,
                    IF q.distinct THEN ordering_aliases \o pairs
                    ELSE ordering_aliases)
         IN  add(FindOrderingName(q, Head(ordering), q.model, None, "ASC", {},
                                  1))

\* SQLCompiler.get_ordering
GetOrdering(q) ==
    GetOrderingFrom(q, QueryOrdering(q), {}, <<>>, <<>>)

RECURSIVE GetDistinct(_, _)
\* SQLCompiler.get_distinct: the joins of the DISTINCT ON fields.
GetDistinct(q, distinct_fields) ==
    IF Len(distinct_fields) = 0 THEN q
    ELSE LET removed(sj) == FinalJoinRemoval(sj.q, sj.col, sj.alias).q
         IN  GetDistinct(removed(CompilerSetupJoins(q, Head(distinct_fields),
                                                    q.model, None)),
                         Tail(distinct_fields))

RECURSIVE GetFromClauseFromAll(_, _, _)
\* Mutant: get_from_clause without the test of alias_refcount.
GetFromClauseFromAll(q, tables, first) ==
    IF Len(tables) = 0 THEN <<>>
    ELSE LET alias == Head(tables)
             join == q.alias_map[alias]
             qn(n) == QuoteNameUnlessAlias(q, n)
             alias_str == IF alias # join.table_name THEN " " \o alias ELSE ""
             entry ==
                IF join.join_type # None /\ ~first
                THEN join.join_type \o " " \o qn(join.table_name) \o alias_str
                     \o " ON (" \o qn(join.lhs_alias) \o "."
                     \o QuoteName(join.lhs_join_col) \o " = " \o qn(alias)
                     \o "." \o QuoteName(join.rhs_join_col) \o ")"
                ELSE (IF first THEN "" ELSE ", ") \o qn(join.table_name)
                     \o alias_str
         IN  <<entry>> \o GetFromClauseFromAll(q, Tail(tables), FALSE)

RECURSIVE GetFromClauseFrom(_, _, _)
\* SQLCompiler.get_from_clause: one entry per alias of query.tables whose
\* refcount is not zero, the first without join condition.
GetFromClauseFrom(q, tables, first) ==
    IF Len(tables) = 0 THEN <<>>
    ELSE LET alias == Head(tables)
             join == q.alias_map[alias]
             qn(n) == QuoteNameUnlessAlias(q, n)
             alias_str == IF alias # join.table_name THEN " " \o alias ELSE ""
             entry ==
                IF join.join_type # None /\ ~first
                THEN join.join_type \o " " \o qn(join.table_name) \o alias_str
                     \o " ON (" \o qn(join.lhs_alias) \o "."
                     \o QuoteName(join.lhs_join_col) \o " = " \o qn(alias)
                     \o "." \o QuoteName(join.rhs_join_col) \o ")"
                ELSE (IF first THEN "" ELSE ", ") \o qn(join.table_name)
                     \o alias_str
         IN  IF q.alias_refcount[alias] = 0
             THEN GetFromClauseFrom(q, Tail(tables), first)
             ELSE <<entry>> \o GetFromClauseFrom(q, Tail(tables), FALSE)

GetFromClause(q) == GetFromClauseFrom(q, q.tables, TRUE)

\* get_cols_by_table: the columns of the model stored in the table.
GetColsByTable(tbl) ==
    LET model == CHOOSE m \in DOMAIN Meta : Meta[m].db_table = tbl
    IN  {Meta[model].fields[i].column : i \in 1..Len(Meta[model].fields)}

\* SQLCompiler.populate_dupe_cols: the columns that two of the referenced
\* aliases both have.
PopulateDupeCols(q) ==
    LET active == {i \in 1..Len(q.tables) : q.alias_refcount[q.tables[i]] # 0}
        cols(i) == GetColsByTable(q.alias_map[q.tables[i]].table_name)
    IN  UNION {cols(i) \cap cols(j) : <<i, j>> \in
                    {p \in active \X active : p[1] < p[2]}}

\* SQLCompiler.quote_pair
QuotePair(q, duplicate_cols, alias, col) ==
    IF col \in duplicate_cols
    THEN QuoteNameUnlessAlias(q, alias) \o "." \o QuoteNameUnlessAlias(q, col)
    ELSE QuoteNameUnlessAlias(q, col)

\* SQLCompiler.get_col_output for one column: a pair is quoted, a column
\* without table alias gets its alias.
GetColOutput(q, duplicate_cols, col) ==
    IF col[1] = None THEN col[2] \o " AS " \o col[3]
    ELSE QuotePair(q, duplicate_cols, col[1], col[2])

\* Query.where.as_sql(qn, connection)
QueryWhereAsSql(q, conn) == WhereAsSql(q, conn, q.where)

\* Mutant: as_sql that leaves the refcounts as the compilation made them.
CleanupRefcountsSkipped(q, refcounts_before) == q

\* The cleanup as_sql ends with: self.query.reset_refcounts(refcounts_before).
CleanupRefcounts(q, refcounts_before) == ResetRefcounts(q, refcounts_before)

\* SQLCompiler.get_distinct_output(distinct)
GetDistinctOutput(distinct) == <<>>

RECURSIVE AppendUnseen(_, _)
\* "if sql not in seen: result.append(sql); seen.add(sql)" for every item
AppendUnseen(result, items) ==
    IF Len(items) = 0 THEN result
    ELSE AppendUnseen(IF Head(items) \in SeqRange(result) THEN result
                      ELSE Append(result, Head(items)),
                      Tail(items))

\* SQLCompiler.get_grouping(ordering_group_by) on a backend without
\* allows_group_by_pk: the columns of query.group_by and of the select list,
\* then those of the ordering, each once.
GetGrouping(q, duplicate_cols, ordering_group_by) ==
    IF Len(q.group_by) = 0 THEN <<>>
    ELSE LET cols == q.group_by[1] \o q.select \o q.related_select_cols
         IN  AppendUnseen(
                AppendUnseen(<<>>, [i \in 1..Len(cols) |->
                    QuotePair(q, duplicate_cols, cols[i][1], cols[i][2])]),
                ordering_group_by)

\* "self.query.select_for_update and
\* self.connection.features.has_select_for_update": the statement gets a
\* locking clause.
ForUpdate(q, conn) == q.select_for_update /\ conn.has_select_for_update

\* Mutant: the NOWAIT support of the backend is not looked at.
NowaitUnsupportedIgnored(q, conn) == FALSE

\* "nowait and not self.connection.features.has_select_for_update_nowait"
NowaitUnsupported(q, conn) ==
    q.select_for_update_nowait /\ ~conn.has_select_for_update_nowait

\* connection.ops.for_update_sql(nowait)
ForUpdateSql(nowait) == IF nowait THEN "FOR UPDATE NOWAIT" ELSE "FOR UPDATE"

\* SQLCompiler.as_sql(with_limits). Returns the query as the call leaves it,
\* the refcounts noted after pre_sql_setup, and the SQL with its params or the
\* exception raised.
AsSql(q, conn, with_limits) ==
    LET left(qry, refcounts_before, res, width) ==
            [q |-> qry, refcounts_before |-> refcounts_before, res |-> res,
             width |-> width]
        assemble(q2, refcounts_before, cols, ord, from_, duplicate_cols,
                 where) ==
            LET ordering == [i \in 1..Len(ord) |->
                    QuotePair(q2, duplicate_cols, ord[i][1], ord[i][2])
                    \o " " \o ord[i][3]]
                out_cols == [i \in 1..Len(cols) |->
                    GetColOutput(q2, duplicate_cols, cols[i])]
                aliases == [i \in 1..Len(q2.ordering_aliases) |->
                    QuotePair(q2, duplicate_cols, q2.ordering_aliases[i][1],
                              q2.ordering_aliases[i][2])]
                limits ==
                    IF ~with_limits THEN <<>>
                    ELSE (IF q2.high_mark # NoHighMark
                          THEN <<"LIMIT "
                                 \o ToString(q2.high_mark - q2.low_mark)>>
                          ELSE <<>>)
                         \o (IF q2.low_mark # 0
                             THEN <<"OFFSET " \o ToString(q2.low_mark)>>
                             ELSE <<>>)
                distinct_fields == GetDistinctOutput(q2.distinct_fields)
                grouping == GetGrouping(q2, duplicate_cols,
                    [i \in 1..Len(ord) |->
                        QuotePair(q2, duplicate_cols, ord[i][1], ord[i][2])])
                for_update == ForUpdate(q2, conn)
                nowait == q2.select_for_update_nowait
                result ==
                    <<"SELECT">>
                    \o (IF q2.distinct THEN <<"DISTINCT">> ELSE <<>>)
                    \o out_cols \o aliases \o <<"FROM">> \o from_
                    \o (IF Len(where.sql) > 0 THEN <<"WHERE">> \o where.sql
                        ELSE <<>>)
                    \o (IF Len(grouping) > 0 THEN <<"GROUP BY">> \o grouping
                        ELSE <<>>)
                    \o (IF Len(ordering) > 0 THEN <<"ORDER BY">> \o ordering
                        ELSE <<>>)
                    \o limits
                    \o (IF for_update THEN <<ForUpdateSql(nowait)>>
                        ELSE <<>>)
                width == Len(cols) + Len(q2.ordering_aliases)
            IN  IF where.raised # ""
                THEN left(q2, refcounts_before, where, width)
                ELSE IF Len(grouping) > 0 /\ Len(distinct_fields) > 0
                THEN left(q2, refcounts_before, Raised(NotImplementedError),
                          width)
                ELSE IF for_update /\ NowaitUnsupported(q2, conn)
                THEN left(q2, refcounts_before, Raised(DatabaseError), width)
                ELSE left(CleanupRefcounts(q2, refcounts_before),
                          refcounts_before, Sql(result, where.params), width)
        from_where(q2, refcounts_before, cols, ord) ==
            assemble(q2, refcounts_before, cols, ord, GetFromClause(q2),
                     PopulateDupeCols(q2), QueryWhereAsSql(q2, conn))
        ordered(refcounts_before, cols, ord) ==
            IF ord.raised # ""
            THEN left(ord.q, refcounts_before, Raised(ord.raised), 0)
            ELSE from_where(GetDistinct(ord.q, ord.q.distinct_fields),
                            refcounts_before, cols, ord.result)
        set_up(q1) ==
            ordered(q1.alias_refcount, GetColumns(q1), GetOrdering(q1))
    IN  IF with_limits /\ q.low_mark = q.high_mark
        THEN left(q, <<>>, Sql(<<>>, <<>>), 0)
        ELSE set_up(PreSqlSetup(q))

RECURSIVE RelabeledClone(_, _)
\* Col.relabeled_clone and SimpleLookup.relabeled_clone: a new node with the
\* aliases of change_map substituted.
RelabeledClone(node, change_map) ==
    IF node.kind = "col"
    THEN Col(IF node.alias \in DOMAIN change_map THEN change_map[node.alias]
             ELSE node.alias, node.column)
    ELSE [Lookup(node.type, RelabeledClone(node.lhs, change_map),
                 node.has_value, node.value)
            EXCEPT !.rhs_query = node.rhs_query]

\* Query.clone: a copy that shares no mutable collection with the query.
Clone(q) == q

\* Query.clear_ordering(force_empty=True)
ClearOrdering(q) ==
    [q EXCEPT !.order_by = <<>>, !.default_ordering = FALSE]

\* Query.change_aliases(change_map): relabels the where tree, the select
\* list, the tables, the alias map and the refcounts.
ChangeAliases(q, change_map) ==
    LET new(a) == IF a \in DOMAIN change_map THEN change_map[a] ELSE a
        old(b) == CHOOSE a \in Aliases(q) : new(a) = b
    IN  [q EXCEPT
            !.where = [i \in 1..Len(q.where) |->
                          RelabeledClone(q.where[i], change_map)],
            !.select = [i \in 1..Len(q.select) |->
                          <<new(q.select[i][1]), q.select[i][2]>>],
            !.tables = [i \in 1..Len(q.tables) |-> new(q.tables[i])],
            !.alias_refcount = [b \in {new(a) : a \in Aliases(q)} |->
                                  q.alias_refcount[old(b)]],
            !.alias_map = [b \in {new(a) : a \in Aliases(q)} |->
                [q.alias_map[old(b)] EXCEPT
                    !.rhs_alias = b,
                    !.lhs_alias = IF @ = None THEN None ELSE new(@)]]]

\* Query.bump_prefix: the next alias prefix, and every alias renamed to the
\* prefix and its position in query.tables.
BumpPrefix(q) ==
    LET prefix == CASE q.alias_prefix = "T" -> "U"
                    [] q.alias_prefix = "U" -> "V"
                    [] OTHER -> "W"
        pos(a) == CHOOSE i \in 1..Len(q.tables) : q.tables[i] = a
        change_map == [a \in Aliases(q) |-> prefix \o ToString(pos(a) - 1)]
    IN  [ChangeAliases(q, change_map) EXCEPT !.alias_prefix = prefix]

\* Mutant: as_nested_sql working on self.query itself.
NestedObjIsSelf(q) == [query |-> q, is_self |-> TRUE]

\* obj = self.query.clone() of as_nested_sql: the object the method works
\* on, and whether it is self.query itself.
NestedObj(q) == [query |-> Clone(q), is_self |-> FALSE]

\* SQLCompiler.as_nested_sql. Returns self.query as the call leaves it, and
\* what as_sql of the object returned.
CompilerAsNestedSql(q, conn) ==
    LET unordered(o) ==
            IF o.low_mark = 0 /\ o.high_mark = NoHighMark
            THEN ClearOrdering(o) ELSE o
        on(obj) ==
            [AsSql(BumpPrefix(unordered(obj.query)), conn, TRUE)
                EXCEPT !.q = IF obj.is_self THEN @ ELSE q]
    IN  on(NestedObj(q))

MULTI == "multi"
SINGLE == "single"

\* What a compiler call returned: nothing (None), an iterator over rows, one
\* row, the cursor, or SQL; or the exception it raised.
Returned(kind, rows) == [kind |-> kind, rows |-> rows, raised |-> ""]

\* Mutant: execute_sql without "if not sql: raise EmptyResultSet".
CompilationEmptyOnlyRaised(res) == res.raised = EmptyResultSet

\* The try block of execute_sql: as_sql raised EmptyResultSet, or returned
\* no SQL.
CompilationEmpty(res) ==
    \/ res.raised = EmptyResultSet
    \/ res.raised = "" /\ Len(res.sql) = 0

\* Mutant: the rows as the cursor returned them.
TrimmedNothing(row, trim) == row

\* order_modified_iter and the slices of execute_sql: rows without their
\* last trim columns.
Trimmed(row, trim) == SubSeq(row, 1, Len(row) - trim)

\* SQLCompiler.execute_sql(result_type); fetched is the number of rows the
\* database has for the statement. Returns the query as left by as_sql, the
\* return value, the cursors acquired, the cursors closed (the method has no
\* cursor.close() on any of its paths) and the statements executed.
ExecuteSql(q, conn, result_type, fetched) ==
  LET run(c) ==
    LET trim == Len(c.q.ordering_aliases)
        row == [i \in 1..c.width |-> i]
        out(ret, ncursors, stmts) ==
            [q |-> c.q, refcounts_before |-> c.refcounts_before,
             ret |-> ret, cursors |-> ncursors, closed |-> 0,
             sent |-> stmts]
        stmt == << [sql |-> c.res.sql, params |-> c.res.params] >>
    IN  IF CompilationEmpty(c.res)
        THEN out(IF result_type = MULTI THEN Returned("iterator", <<>>)
                 ELSE Returned(None, <<>>), 0, <<>>)
        ELSE IF c.res.raised # ""
        THEN out([kind |-> "raised", rows |-> <<>>, raised |-> c.res.raised],
                 0, <<>>)
        ELSE IF result_type = None
        THEN out(Returned("cursor", <<>>), 1, stmt)
        ELSE IF result_type = SINGLE
        THEN IF fetched = 0
             THEN IF trim > 0
                  THEN out([kind |-> "raised", rows |-> <<>>,
                            raised |-> "TypeError"], 1, stmt)
                  ELSE out(Returned(None, <<>>), 1, stmt)
             ELSE out(Returned("row", <<Trimmed(row, trim)>>), 1, stmt)
        ELSE out(Returned(IF conn.can_use_chunked_reads THEN "iterator"
                          ELSE "list",
                          [i \in 1..fetched |-> Trimmed(row, trim)]), 1, stmt)
  IN  run(AsSql(q, conn, TRUE))

\* Python's row[low:high], the bounds clipped to the row.
Slice(row, low, high) ==
    SubSeq(row, (IF low < Len(row) THEN low ELSE Len(row)) + 1,
           IF high < Len(row) THEN high ELSE Len(row))

\* Query.resolve_aggregate(value, aggregate, connection): the value the
\* driver returned, converted to the type of the aggregate. The driver's
\* value for column i is i, its conversion is -i.
ResolveAggregate(value, aggregate, conn) == 0 - value

\* "aggregate_start = len(self.query.extra_select) + len(self.query.select)"
\* of results_iter; the queries have no extra select.
AggregateStart(q) == Len(q.select)

\* The body of the loop of results_iter for a query with aggregates: the
\* slice of the row between aggregate_start and aggregate_end zipped with
\* the aggregates and converted.
ResolveAggregates(q, conn, row) ==
    LET aggregate_start == AggregateStart(q)
        aggregate_end == aggregate_start + Len(q.aggregate_select)
        values == Slice(row, aggregate_start, aggregate_end)
    IN  Slice(row, 0, aggregate_start)
        \o [i \in 1..(IF Len(values) < Len(q.aggregate_select)
                       THEN Len(values) ELSE Len(q.aggregate_select)) |->
                ResolveAggregate(values[i], q.aggregate_select[i], conn)]
        \o Slice(row, aggregate_end, Len(row))

\* SQLCompiler.results_iter(), iterated to its end, on a compiler without
\* resolve_columns: the rows of execute_sql(MULTI) with their aggregates
\* converted, and whether transaction.set_dirty was called.
ResultsIter(q, conn, fetched) ==
    LET has_aggregate_select == Len(q.aggregate_select) > 0
        set_dirty == q.select_for_update /\ conn.is_managed
        decoded(e) ==
            [e EXCEPT
                !.ret = IF e.ret.raised # "" THEN e.ret
                        ELSE Returned("rows",
                            [i \in 1..Len(e.ret.rows) |->
                                IF has_aggregate_select
                                THEN ResolveAggregates(e.q, conn,
                                                       e.ret.rows[i])
                                ELSE e.ret.rows[i]])]
        iterated(e) ==
            [q |-> e.q, refcounts_before |-> e.refcounts_before,
             ret |-> e.ret, cursors |-> e.cursors, closed |-> e.closed,
             set_dirty |-> set_dirty, sent |-> e.sent]
    IN  iterated(decoded(ExecuteSql(q, conn, MULTI, fetched)))

(***************************************************************************)
(* Part V.  A Query is built and compiled: the operations of the QuerySet   *)
(* on its Query, and the calls of the SELECT compiler.                      *)
(***************************************************************************)
MaxOps == 2         \* operations made on one Query
MaxFetched == 2     \* rows the database returns for one statement

\* connection.features, as far as the compilers ask for them, and whether
\* the connection is inside a managed transaction,
\* transaction.is_managed(using).
Features ==
    [has_select_for_update : BOOLEAN, has_select_for_update_nowait : BOOLEAN,
     can_use_chunked_reads : BOOLEAN, update_can_self_select : BOOLEAN,
     has_bulk_insert : BOOLEAN, can_return_id_from_insert : BOOLEAN,
     is_managed : BOOLEAN, use_tz : BOOLEAN]

\* The values of an `in` lookup: 0 to MaxIn of them.
InValues == {[i \in 1..n |-> i] : n \in 0..MaxIn}

\* The outcome of a compiler call.
Outcome(kind, rows, sql, params, raised) ==
    [kind |-> kind, rows |-> rows, sql |-> sql, params |-> params,
     raised |-> raised]

NoOutcome == Outcome(None, <<>>, <<>>, <<>>, "")

\* What as_sql returned or raised, as the outcome of the call.
SqlOutcome(res) ==
    IF res.raised # "" THEN Outcome("raised", <<>>, <<>>, <<>>, res.raised)
    ELSE Outcome("sql", <<>>, res.sql, res.params, "")

\* The filters of the model: a path to a field, the lookups nested on it, and
\* the final lookup with its value (filter(age__div3__in=[...])).
FilterPaths(model) ==
    IF model = "Book" THEN {<<"pages">>, <<"author", "name">>}
    ELSE {<<"age">>}

Filters(model) ==
    {[path |-> p, nesting |-> <<>>, type |-> "exact", value |-> <<1>>,
      rhs_query |-> <<>>] : p \in FilterPaths(model)}
    \cup [path : FilterPaths(model), nesting : {<<>>, <<"div3">>},
          type : {"in"}, value : InValues, rhs_query : {<<>>}]

\* The orderings of the model given to order_by().
Ord(name, desc) == [name |-> name, desc |-> desc]

Orderings(model) ==
    IF model = "Book"
    THEN {<<Ord(<<"pages">>, FALSE)>>, <<Ord(<<"author">>, TRUE)>>,
          <<Ord(<<"author", "id">>, FALSE)>>,
          <<Ord(<<"author", "name">>, FALSE), Ord(<<"author">>, FALSE)>>}
    ELSE {<<Ord(<<"age">>, TRUE)>>, <<>>}

RECURSIVE Nested(_, _)
\* The lookups of nesting built one on the other, without value, up to the
\* first that cannot be built.
Nested(built, nesting) ==
    IF built.raised # "" \/ Len(nesting) = 0 THEN built
    ELSE Nested(SimpleLookup(Head(nesting), built.lookup[1], FALSE, <<>>),
                Tail(nesting))

\* The lookup of a filter on a column: the nested lookups, then the final
\* one with the value.
BuildLookup(col, f) ==
    LET final(lhs) ==
            IF lhs.raised # "" THEN lhs
            ELSE SimpleLookup(f.type, lhs.lookup[1], TRUE, f.value)
    IN  final(Nested(Built(col), f.nesting))

\* The exception Query.add_filter lets through from the construction of the
\* lookup, "" when there is none.
AddFilterRaised(q, f) == BuildLookup(Col(None, None), f).raised

\* Query.add_filter: the joins of the path are set up from the initial alias
\* and the lookup on the final column is ANDed into where.
AddFilter(q, f) ==
    LET add(sj) ==
            [sj.q EXCEPT !.where = Append(@,
                [BuildLookup(Col(sj.joins[Len(sj.joins)], sj.target),
                             f).lookup[1]
                    EXCEPT !.rhs_query = f.rhs_query])]
        from(start) == add(SetupJoins(start.q, f.path, q.model, start.alias))
    IN  from(GetInitialAlias(q))

SqlInit ==
    /\ lastCall = ""
    /\ outcome = NoOutcome
    /\ noted = <<>>
    /\ cursors = 0
    /\ closed = 0
    /\ dirty = FALSE
    /\ heap = <<>>
    /\ sent = <<>>
    /\ ops = 0

\* The query changes: what the last compiler call left does not describe it
\* any more.
Changed(q) ==
    /\ ops < MaxOps
    /\ ops' = ops + 1
    /\ query' = q
    /\ lastCall' = ""
    /\ UNCHANGED <<connection, outcome, noted, cursors, closed, dirty, heap,
                   sent, cascadeVars, tpl>>

\* QuerySet.order_by(*names)
OrderBy(names) == Changed([query EXCEPT !.order_by = names])

\* QuerySet slicing: Query.set_limits(low, high)
SetLimits(low, high) ==
    Changed([query EXCEPT !.low_mark = low, !.high_mark = high])

\* QuerySet.distinct(*fields)
Distinct(fields) ==
    Changed([query EXCEPT !.distinct = TRUE, !.distinct_fields = fields])

\* QuerySet.select_related(*fields): Query.add_select_related, or
\* select_related = True without fields; the related columns are computed
\* anew by the next compilation.
SelectRelated(select_related) ==
    Changed([query EXCEPT !.select_related = select_related,
                          !.related_select_cols = <<>>])

\* QuerySet.select_for_update(nowait)
SelectForUpdate(nowait) ==
    Changed([query EXCEPT !.select_for_update = TRUE,
                          !.select_for_update_nowait = nowait])

\* A compiler call is made: what it leaves behind, the cursors it closed
\* and the transaction it marked dirty included.
CompilerCalled(name, q, out, refcounts_before, ncursors, nclosed, set_dirty, stmts) ==
    /\ ops < MaxOps
    /\ ops' = ops + 1
    /\ query' = q
    /\ lastCall' = name
    /\ outcome' = out
    /\ noted' = refcounts_before
    /\ cursors' = cursors + ncursors
    /\ closed' = closed + nclosed
    /\ dirty' = (dirty \/ set_dirty)
    /\ sent' = sent \o stmts
    /\ UNCHANGED <<connection, heap, cascadeVars, tpl>>

\* A compiler call that leaves the transaction as it is.
CalledClosing(name, q, out, refcounts_before, ncursors, nclosed, stmts) ==
    CompilerCalled(name, q, out, refcounts_before, ncursors, nclosed, FALSE,
                   stmts)

\* A compiler call that closes no cursor is made.
Called(name, q, out, refcounts_before, ncursors, stmts) ==
    CalledClosing(name, q, out, refcounts_before, ncursors, 0, stmts)

\* QuerySet.filter(**{f: value}): the filter is added to the query of a
\* clone of the QuerySet, which is dropped when add_filter raises.
Filter(f) ==
    IF AddFilterRaised(query, f) # ""
    THEN Called("filter", query,
                Outcome("raised", <<>>, <<>>, <<>>, AddFilterRaised(query, f)),
                noted, 0, <<>>)
    ELSE Changed(AddFilter(query, f))

\* query.get_compiler(using).as_sql(with_limits)
CallAsSql(with_limits) ==
    LET called(c) ==
            Called(IF with_limits THEN "as_sql" ELSE "as_sql_no_limits",
                   c.q, SqlOutcome(c.res), c.refcounts_before, 0, <<>>)
    IN  called(AsSql(query, connection, with_limits))

\* query.get_compiler(using).as_nested_sql()
CallAsNestedSql ==
    LET called(c) ==
            Called("as_nested_sql", c.q, SqlOutcome(c.res),
                   c.refcounts_before, 0, <<>>)
    IN  called(CompilerAsNestedSql(query, connection))

\* query.get_compiler(using).execute_sql(result_type)
CallExecuteSql(result_type, fetched) ==
    LET called(e) ==
            CalledClosing("execute_sql_" \o result_type, e.q,
                   Outcome(e.ret.kind, e.ret.rows, <<>>, <<>>, e.ret.raised),
                   e.refcounts_before, e.cursors, e.closed, e.sent)
    IN  called(ExecuteSql(query, connection, result_type, fetched))

\* list(query.get_compiler(using).results_iter())
CallResultsIter(fetched) ==
    LET called(e) ==
            CompilerCalled("results_iter", e.q,
                   Outcome(e.ret.kind, e.ret.rows, <<>>, <<>>, e.ret.raised),
                   e.refcounts_before, e.cursors, e.closed, e.set_dirty,
                   e.sent)
    IN  called(ResultsIter(query, connection, fetched))

\* The schema and rows of Part I, at rest.
CascadeIdle ==
    /\ schema = BasicSchema
    /\ db = [c \in FkCols(BasicSchema) |-> [r \in Rows |-> "bar"]]
    /\ stack = << Frame(<<>>) >>
    /\ cpc = "build"
    /\ clog = <<>>
    /\ nextId = 1
    /\ db0 = db
    /\ tpl = NoTemplate

\* The backends a SELECT is compiled for: without row locks, with them, and
\* with NOWAIT as well.
SelectBackends ==
    {c \in Features :
        /\ ~c.update_can_self_select /\ ~c.has_bulk_insert
        /\ ~c.can_return_id_from_insert /\ ~c.use_tz
        /\ c.has_select_for_update_nowait => c.has_select_for_update
        /\ c.can_use_chunked_reads = c.has_select_for_update}

SelectInit ==
    /\ query \in {NewQuery(m) : m \in Models}
    /\ connection \in SelectBackends
    /\ SqlInit
    /\ CascadeIdle

SelectNext ==
    \/ \E f \in Filters(query.model) : Filter(f)
    \/ \E names \in Orderings(query.model) : OrderBy(names)
    \/ \E l \in {<<0, 0>>, <<0, 1>>, <<1, NoHighMark>>} :
            SetLimits(l[1], l[2])
    \/ \E fields \in {<<>>} \cup {<<p>> : p \in FilterPaths(query.model)} :
            Distinct(fields)
    \/ \E nowait \in BOOLEAN : SelectForUpdate(nowait)
    \/ \E with_limits \in BOOLEAN : CallAsSql(with_limits)
    \/ CallAsNestedSql
    \/ \E result_type \in {MULTI, SINGLE, None}, fetched \in 0..MaxFetched :
            CallExecuteSql(result_type, fetched)
    \/ \E fetched \in 0..MaxFetched : CallResultsIter(fetched)

SpecSelect == SelectInit /\ [][SelectNext]_vars

\* A backend at rest, for the specifications that compile nothing.
SqlIdle ==
    /\ query = NewQuery("Book")
    /\ connection = CHOOSE c \in Features : \A f \in DOMAIN c : ~c[f]
    /\ SqlInit

\* The rows of Part I with no Query being compiled.
CascadeStart == CascadeInit /\ SqlIdle /\ tpl = NoTemplate

SpecCascade == CascadeStart /\ [][CascadeNext]_vars

(***************************************************************************)
(* Part VI.  SQLUpdateCompiler                                              *)
(***************************************************************************)
\* The filter pk__in=value of the model.
PkIn(model, value, rhs_query) ==
    [path |-> <<Meta[model].pk>>, nesting |-> <<>>, type |-> "in",
     value |-> value, rhs_query |-> rhs_query]

\* Query.add_fields(names) for the names of fields of the model itself: the
\* select list becomes their columns on the initial alias.
AddFields(q, names) ==
    LET on(start) ==
            [start.q EXCEPT
                !.select = @ \o [i \in 1..Len(names) |->
                    <<start.alias, GetField(q.model, names[i]).column>>],
                !.default_cols = FALSE]
    IN  on(GetInitialAlias(q))

\* query = self.query.clone(klass=Query) of pre_sql_setup: the object the
\* sub-select is built on, and whether it is self.query itself.
SubSelectObj(q) == [query |-> Clone(q), is_self |-> FALSE]

\* "for alias in self.query.tables[1:]: self.query.alias_refcount[alias] = 0"
DropJoinedTables(q) ==
    [q EXCEPT !.alias_refcount =
        [a \in DOMAIN @ |-> IF a = q.tables[1] THEN @[a] ELSE 0]]

\* Mutant: the sub-select is always left to the UPDATE statement.
PreSelectsNever(q, count, conn) == FALSE

\* "self.query.related_updates or must_pre_select": the primary keys are
\* selected before the UPDATE.
PreSelects(q, count, conn) ==
    \/ Len(q.related_updates) > 0
    \/ count > 1 /\ ~conn.update_can_self_select

\* What pre_sql_setup leaves: self.query, the statements executed, and
\* self.query before and after the sub-select was built.
PreSqlSetupOut(qry, stmts, ncursors, before, after, raised) ==
    [q |-> qry, sent |-> stmts, cursors |-> ncursors,
     before |-> before, after |-> after, raised |-> raised]

\* "idents = []; for rows in query.get_compiler(self.using).execute_sql(MULTI)
\* ...; self.query.add_filter(('pk__in', idents)); self.query.related_ids =
\* idents" of pre_sql_setup, e being what the execute_sql call did.
PreSqlSetupSelected(q0, q1, e, matching) ==
    LET idents == IF Len(e.sent) = 0 THEN <<>> ELSE matching
    IN  IF e.ret.raised # ""
        THEN PreSqlSetupOut([q1 EXCEPT !.where = <<>>], e.sent, e.cursors,
                            q0, q1, e.ret.raised)
        ELSE PreSqlSetupOut(
                DropJoinedTables(
                    [AddFilter([q1 EXCEPT !.where = <<>>],
                               PkIn(q1.model, idents, <<>>))
                        EXCEPT !.related_ids = <<idents>>]),
                e.sent, e.cursors, q0, q1, "")

\* pre_sql_setup from "self.query.where = self.query.where_class()" on:
\* the primary keys are selected first, or the sub-select is the value of
\* the pk__in filter.
PreSqlSetupAdjust(q0, q1, sub, count, conn, matching) ==
    IF Len(q1.related_updates) = 0 /\ count = 1
    THEN PreSqlSetupOut(q1, <<>>, 0, q0, q1, "")
    ELSE IF PreSelects(q1, count, conn)
    THEN PreSqlSetupSelected(q0, q1,
                             ExecuteSql(sub, conn, MULTI, Len(matching)),
                             matching)
    ELSE PreSqlSetupOut(
            DropJoinedTables(
                AddFilter([q1 EXCEPT !.where = <<>>],
                          PkIn(q1.model, <<>>, <<sub>>))),
            <<>>, 0, q0, q1, "")

\* pre_sql_setup once the sub-select is built: sub is the object the
\* sub-select was built on, which is self.query itself when is_self holds.
PreSqlSetupBuilt(q0, is_self, sub, conn, matching) ==
    PreSqlSetupAdjust(q0, IF is_self THEN sub ELSE q0, sub,
                      CountActiveTables(sub), conn, matching)

\* "query.bump_prefix(); query.extra = {}; query.select = [];
\* query.add_fields([query.model._meta.pk.name])" of pre_sql_setup
PreSqlSetupSubSelect(q0, obj, conn, matching) ==
    PreSqlSetupBuilt(q0, obj.is_self,
                     AddFields([BumpPrefix(obj.query) EXCEPT !.select = <<>>],
                               <<Meta[q0.model].pk>>),
                     conn, matching)

\* pre_sql_setup after super().pre_sql_setup(): nothing more is done for an
\* update of one table with no related updates.
PreSqlSetupCounted(q0, conn, matching) ==
    IF Len(q0.related_updates) = 0 /\ CountActiveTables(q0) = 1
    THEN PreSqlSetupOut(q0, <<>>, 0, q0, q0, "")
    ELSE PreSqlSetupSubSelect(q0, SubSelectObj(q0), conn, matching)

\* SQLUpdateCompiler.pre_sql_setup; matching are the primary keys the
\* database returns for the sub-select. Returns self.query as the call
\* leaves it, the statements executed, and self.query before and after the
\* sub-select was built.
UpdatePreSqlSetup(q, conn, matching) ==
    PreSqlSetupCounted(PreSqlSetup(ClearOrdering(q)), conn, matching)

RECURSIVE UpdateParams(_)
\* update_params of as_sql: the values that are not None, in order. A value
\* is <<v>>, None is <<>>.
UpdateParams(values) ==
    IF Len(values) = 0 THEN <<>>
    ELSE Head(values).val \o UpdateParams(Tail(values))

\* SQLUpdateCompiler.as_sql: UPDATE table SET column = %s, ... WHERE ...
UpdateAsSql(q, conn, matching) ==
    LET statement(q1, where) ==
            LET values == [i \in 1..Len(q1.values) |->
                    QuoteNameUnlessAlias(q1, q1.values[i].column) \o
                    (IF Len(q1.values[i].val) = 0 THEN " = NULL"
                     ELSE " = %s")]
            IN  IF where.raised # "" THEN where
                ELSE Sql(<<"UPDATE", QuoteNameUnlessAlias(q1, q1.tables[1]),
                           "SET">> \o values
                         \o (IF Len(where.sql) > 0
                             THEN <<"WHERE">> \o where.sql ELSE <<>>),
                         UpdateParams(q1.values) \o where.params)
        compiled(pre) ==
            [q |-> pre.q, sent |-> pre.sent, cursors |-> pre.cursors,
             before |-> pre.before, after |-> pre.after,
             res |-> IF pre.raised # "" THEN Raised(pre.raised)
                     ELSE IF Len(pre.q.values) = 0 THEN Sql(<<>>, <<>>)
                     ELSE statement(pre.q, QueryWhereAsSql(pre.q, conn))]
    IN  compiled(UpdatePreSqlSetup(q, conn, matching))

\* UpdateQuery.get_related_updates: one UpdateQuery per related model, with
\* its values, filtered by pk__in=related_ids when they were selected.
GetRelatedUpdates(q) ==
    [i \in 1..Len(q.related_updates) |->
        LET rq == [NewQuery(q.related_updates[i].model) EXCEPT
                      !.values = q.related_updates[i].values]
        IN  IF Len(q.related_ids) > 0
            THEN AddFilter(rq, PkIn(rq.model, q.related_ids[1], <<>>))
            ELSE rq]

\* super().execute_sql(result_type) and "rows = cursor and cursor.rowcount
\* or 0" of SQLUpdateCompiler.execute_sql, for the statement of one query.
\* The statement is sent with the rowcount its cursor reports.
UpdatePrimary(q, conn, matching, rowcount) ==
    LET run(c) ==
            LET empty == CompilationEmpty(c.res)
                failed == ~empty /\ c.res.raised # ""
                stmt == << [sql |-> c.res.sql, params |-> c.res.params,
                            rowcount |-> rowcount] >>
            IN  [q |-> c.q, before |-> c.before, after |-> c.after,
                 raised |-> IF failed THEN c.res.raised ELSE "",
                 is_empty |-> empty,
                 rows |-> IF empty \/ failed THEN 0 ELSE rowcount,
                 cursors |-> c.cursors + (IF empty \/ failed THEN 0 ELSE 1),
                 sent |-> c.sent \o (IF empty \/ failed THEN <<>> ELSE stmt)]
    IN  run(UpdateAsSql(q, conn, matching))

RECURSIVE UpdateRelatedKeepingLast(_, _, _, _)
\* Mutant: the loop over the related updates with "rows = aux_rows" outside
\* the test of is_empty.
UpdateRelatedKeepingLast(acc, queries, conn, aux_rowcounts) ==
    IF Len(queries) = 0 \/ acc.raised # "" THEN acc
    ELSE LET next(aux) ==
                [acc EXCEPT
                    !.raised = aux.raised,
                    !.rows = aux.rows,
                    !.is_empty = FALSE,
                    !.cursors = @ + aux.cursors,
                    !.sent = @ \o aux.sent]
         IN  UpdateRelatedKeepingLast(
                next(UpdatePrimary(Head(queries), conn, <<>>,
                                   Head(aux_rowcounts))),
                Tail(queries), conn, Tail(aux_rowcounts))

RECURSIVE UpdateRelated(_, _, _, _)
\* The loop of SQLUpdateCompiler.execute_sql over the related updates, each
\* run by execute_sql of its own compiler: while is_empty holds, the rows of
\* the related update are the rows returned. aux_rowcounts are the row
\* counts the statements of the related updates report, in order.
UpdateRelated(acc, queries, conn, aux_rowcounts) ==
    IF Len(queries) = 0 \/ acc.raised # "" THEN acc
    ELSE LET next(aux) ==
                [acc EXCEPT
                    !.raised = aux.raised,
                    !.rows = IF acc.is_empty THEN aux.rows ELSE @,
                    !.is_empty = FALSE,
                    !.cursors = @ + aux.cursors,
                    !.sent = @ \o aux.sent]
         IN  UpdateRelated(next(UpdatePrimary(Head(queries), conn, <<>>,
                                              Head(aux_rowcounts))),
                           Tail(queries), conn, Tail(aux_rowcounts))

\* "for query in self.query.get_related_updates(): ..." of
\* SQLUpdateCompiler.execute_sql, primary being what the statement of
\* self.query did.
UpdateRelatedOf(primary, conn, aux_rowcounts) ==
    UpdateRelated(primary, GetRelatedUpdates(primary.q), conn, aux_rowcounts)

\* SQLUpdateCompiler.execute_sql(result_type)
UpdateExecuteSql(q, conn, matching, rowcount, aux_rowcounts) ==
    UpdateRelatedOf(UpdatePrimary(q, conn, matching, rowcount), conn,
                    aux_rowcounts)

MaxRowcount == 2    \* rows an UPDATE statement reports

\* The values of an update: one column of the model set to a value or None.
UpdateValues(model) ==
    LET column == Meta[model].fields[Len(Meta[model].fields)].column
    IN  {<<[column |-> column, val |-> <<7>>]>>,
         <<[column |-> column, val |-> <<>>]>>}

\* The related updates of an update: none, or the values of one column
\* stored in the table of another model.
RelatedUpdates(model) ==
    {<<>>} \cup UNION {{<<[model |-> m, values |-> values]>> :
                            values \in UpdateValues(m)} :
                        m \in Models \ {model}}

\* UpdateQuery.add_update_values(values): the values of the fields of the
\* model itself, and through add_related_update those of the fields stored
\* in the table of another model.
AddUpdateValues(values, related_updates) ==
    Changed([query EXCEPT !.values = @ \o values,
                          !.related_updates = @ \o related_updates])

\* query.get_compiler(using).execute_sql(None) of an UpdateQuery
CallUpdateExecuteSql(matching, rowcount, aux_rowcounts) ==
    LET called(e) ==
            Called("update_execute_sql", e.q,
                   Outcome(IF e.raised # "" THEN "raised" ELSE "rows",
                           <<e.rows>>, <<>>, <<>>, e.raised),
                   [before |-> e.before, after |-> e.after],
                   e.cursors, e.sent)
    IN  called(UpdateExecuteSql(query, connection, matching, rowcount,
                                aux_rowcounts))

\* The backends an UPDATE is compiled for: those that can select from the
\* table they update, and those that cannot.
UpdateBackends ==
    {c \in Features :
        /\ ~c.has_select_for_update /\ ~c.has_select_for_update_nowait
        /\ c.can_use_chunked_reads /\ c.is_managed /\ ~c.use_tz
        /\ ~c.has_bulk_insert /\ ~c.can_return_id_from_insert}

\* An UpdateQuery of a model, with or without values set by
\* add_update_values before the first step.
UpdateQueries ==
    UNION {{[NewQuery(m) EXCEPT !.values = values] :
                values \in {<<>>} \cup UpdateValues(m)} : m \in Models}

UpdateInit ==
    /\ query \in UpdateQueries
    /\ connection \in UpdateBackends
    /\ SqlInit
    /\ CascadeIdle

UpdateNext ==
    \/ \E f \in Filters(query.model) : Filter(f)
    \/ \E names \in Orderings(query.model) : OrderBy(names)
    \/ \E values \in {<<>>} \cup UpdateValues(query.model),
          related_updates \in RelatedUpdates(query.model) :
            AddUpdateValues(values, related_updates)
    \/ CallAsNestedSql
    \/ \E matching \in InValues, rowcount \in {0, MaxRowcount},
          aux_rowcount \in {0, MaxRowcount} :
            CallUpdateExecuteSql(matching, rowcount,
                [i \in 1..Len(query.related_updates) |-> aux_rowcount])

SpecUpdate == UpdateInit /\ [][UpdateNext]_vars

(***************************************************************************)
(* Claims about the SELECT compiler                                         *)
(***************************************************************************)
\* The step is a call of execute_sql.
ExecuteSqlStep ==
    /\ ops' = ops + 1
    /\ lastCall' \in {"execute_sql_" \o t : t \in {MULTI, SINGLE, None}}

\* An `in` lookup with an empty list of values.
IsEmptyIn(l) ==
    l.type = "in" /\ l.has_value /\ Len(l.value) = 0 /\ Len(l.rhs_query) = 0

\* The step is a call of as_sql.
AsSqlStep ==
    /\ ops' = ops + 1
    /\ lastCall' \in {"as_sql", "as_sql_no_limits"}

\* C1: an `in` lookup whose list of values is empty raises EmptyResultSet
\* when it is compiled, and executing a query filtered by field__in=[] or by
\* a nested age__div3__in=[] returns an iterator without rows, executes no
\* statement and raises nothing.
C1_EmptyInMatchesNothing ==
    [][(ExecuteSqlStep /\ lastCall' = "execute_sql_" \o MULTI
        /\ \E i \in 1..Len(query.where) : IsEmptyIn(query.where[i]))
       => /\ \A i \in 1..Len(query.where) :
                IsEmptyIn(query.where[i]) =>
                    LookupAsSql(query, connection, query.where[i]).raised
                        = EmptyResultSet
          /\ outcome' = Outcome("iterator", <<>>, <<>>, <<>>, "")
          /\ sent' = sent
          /\ cursors' = cursors]_vars

\* A query filtered by age__div3__in=[] has been executed.
C1_Witness ==
    /\ lastCall = "execute_sql_" \o MULTI
    /\ \E i \in 1..Len(query.where) :
            /\ IsEmptyIn(query.where[i])
            /\ query.where[i].lhs.kind = "lookup"
            /\ query.where[i].lhs.type = "div3"
    /\ outcome.kind = "iterator"

\* as_sql of the query signals the empty result: it raises EmptyResultSet or
\* returns no SQL.
SignalsEmpty(res) ==
    \/ res.raised = EmptyResultSet
    \/ res.raised = "" /\ res.sql = <<>>

\* C2: execute_sql never lets EmptyResultSet escape and acquires no cursor
\* when the compilation signals the empty result (raised in as_sql, or no SQL
\* because low_mark = high_mark): it returns an empty iterator for MULTI and
\* None for the other result types.
C2_EmptyResultNeverEscapes ==
    [][ExecuteSqlStep
       => /\ outcome'.raised # EmptyResultSet
          /\ SignalsEmpty(AsSql(query, connection, TRUE).res)
                => /\ cursors' = cursors
                   /\ sent' = sent
                   /\ outcome' = IF lastCall' = "execute_sql_" \o MULTI
                                 THEN Outcome("iterator", <<>>, <<>>, <<>>, "")
                                 ELSE NoOutcome]_vars

\* execute_sql(SINGLE) has returned None for a query sliced to nothing,
\* without a cursor.
C2_Witness ==
    /\ lastCall = "execute_sql_" \o SINGLE
    /\ query.low_mark = query.high_mark
    /\ outcome = NoOutcome
    /\ cursors = 0

\* C7: when as_sql has returned the SQL of a SELECT, every alias has the
\* refcount noted after pre_sql_setup (an alias joined since then has none),
\* and compiling the query again gives the same SQL and params.
C7_RefcountsRestored ==
    (lastCall \in {"as_sql", "as_sql_no_limits"} /\ outcome.kind = "sql"
     /\ outcome.sql # <<>>)
    => /\ DOMAIN noted \subseteq DOMAIN query.alias_refcount
       /\ \A a \in DOMAIN query.alias_refcount :
            query.alias_refcount[a] = IF a \in DOMAIN noted THEN noted[a] ELSE 0
       /\ SqlOutcome(AsSql(query, connection, lastCall = "as_sql").res)
            = outcome

\* as_sql has returned SQL that joins a table for the ordering only: the
\* alias is in the FROM clause and its refcount is 0 again.
C7_Witness ==
    /\ lastCall = "as_sql"
    /\ outcome.kind = "sql"
    /\ \E a \in DOMAIN query.alias_refcount :
            /\ query.alias_refcount[a] = 0
            /\ query.alias_map[a].join_type = LOUTER
            /\ \E i \in 1..Len(outcome.sql) :
                    outcome.sql[i] = "ORDER BY"

(***************************************************************************)
(* Claims about the UPDATE compiler                                         *)
(***************************************************************************)
\* The step is a call of SQLUpdateCompiler.execute_sql.
UpdateStep == ops' = ops + 1 /\ lastCall' = "update_execute_sql"

\* The statements the step executed.
NewSent == SubSeq(sent', Len(sent) + 1, Len(sent'))

ActiveTables(q) == CountActiveTables(PreSqlSetup(ClearOrdering(q)))

\* The WHERE clause is one condition pk IN (a fixed list of values).
WhereIsPkInList(q) ==
    /\ Len(q.where) = 1
    /\ q.where[1].type = "in"
    /\ q.where[1].lhs = Col(q.tables[1], Meta[q.model].pk)
    /\ Len(q.where[1].rhs_query) = 0

\* The step selected the primary keys first and wrote afterwards, every
\* UPDATE with the selected keys as the last params.
SelectedThenUpdated ==
    /\ WhereIsPkInList(query')
    /\ query'.related_ids = <<query'.where[1].value>>
    /\ Len(query'.where[1].value) > 0
            => Len(NewSent) > 0 /\ NewSent[1].sql[1] = "SELECT"
    /\ \A i \in 1..Len(NewSent) :
            \/ i = 1 /\ NewSent[i].sql[1] = "SELECT"
            \/ LET idents == query'.where[1].value
                   params == NewSent[i].params
               IN  /\ NewSent[i].sql[1] = "UPDATE"
                   /\ Len(params) >= Len(idents)
                   /\ SubSeq(params, Len(params) - Len(idents) + 1,
                             Len(params)) = idents

\* C9 as stated: an UPDATE whose conditions involve more than one active
\* table selects the matching primary keys into a fixed list before the
\* UPDATE statement and replaces the WHERE clause by pk IN that list.
C9_MultiTablePreSelects ==
    [][(UpdateStep /\ ActiveTables(query) > 1) => SelectedThenUpdated]_vars

\* C9, amended: the primary keys are selected into a fixed list before the
\* UPDATE, and the WHERE clause replaced by pk IN that list, when the update
\* has related updates, or involves more than one active table on a backend
\* that cannot select from the table it updates; on a backend that can, a
\* multi-table UPDATE without related updates executes no SELECT and gets
\* the sub-select itself as the pk IN condition.
C9_PreSelectsWhenNeeded ==
    [][UpdateStep =>
        /\ (\/ Len(query.related_updates) > 0
            \/ ActiveTables(query) > 1 /\ ~connection.update_can_self_select)
           => SelectedThenUpdated
        /\ (/\ Len(query.related_updates) = 0
            /\ ActiveTables(query) > 1
            /\ connection.update_can_self_select)
           => /\ \A i \in 1..Len(NewSent) : NewSent[i].sql[1] = "UPDATE"
              /\ Len(query'.where) = 1
              /\ Len(query'.where[1].rhs_query) = 1]_vars

\* A multi-table UPDATE on a backend that cannot select from the table it
\* updates: the SELECT of the primary keys, then the UPDATE of those rows.
C9_Witness ==
    /\ lastCall = "update_execute_sql"
    /\ ~connection.update_can_self_select
    /\ Len(query.related_updates) = 0
    /\ Len(sent) = 2
    /\ sent[1].sql[1] = "SELECT"
    /\ sent[2].sql[1] = "UPDATE"
    /\ Len(query.tables) > 1
    /\ WhereIsPkInList(query)
    /\ Len(query.where[1].value) > 0

(***************************************************************************)
(* Part VII.  SQLInsertCompiler                                             *)
(***************************************************************************)
MaxObjs == 2        \* objects inserted by one InsertQuery

\* InsertQuery.insert_values(fields, objs): the fields inserted, a field
\* being its column and whether its class defines get_placeholder, and per
\* object the values of the fields after get_db_prep_save.
InsertQuery(model, fields, objs) ==
    [model |-> model, fields |-> fields, objs |-> objs]

RECURSIVE Join2(_, _)
\* sep.join(strings)
Join2(strings, sep) ==
    IF Len(strings) = 0 THEN ""
    ELSE IF Len(strings) = 1 THEN strings[1]
    ELSE strings[1] \o sep \o Join2(Tail(strings), sep)

RECURSIVE Flattened(_)
\* [v for val in values for v in val]
Flattened(values) ==
    IF Len(values) = 0 THEN <<>>
    ELSE Head(values) \o Flattened(Tail(values))

\* connection.ops.pk_default_value()
PkDefaultValue == "DEFAULT"

\* SQLInsertCompiler.placeholder(field, val); the compiler's list of fields
\* is [None] when the query has no fields.
Placeholder(has_fields, field, val) ==
    IF ~has_fields THEN val
    ELSE IF field.get_placeholder THEN "placeholder(%s)"
    ELSE "%s"

\* Mutant: can_bulk without "not self.return_id".
CanBulkIgnoringReturnId(iq, return_id, conn) ==
    /\ ~\E i \in 1..Len(iq.fields) : iq.fields[i].get_placeholder
    /\ conn.has_bulk_insert

\* can_bulk of as_sql
CanBulk(iq, return_id, conn) ==
    /\ ~\E i \in 1..Len(iq.fields) : iq.fields[i].get_placeholder
    /\ ~return_id
    /\ conn.has_bulk_insert

\* connection.ops.bulk_insert_sql(fields, num_values): one group of
\* placeholders per object
BulkInsertSql(nfields, num_values) ==
    <<"VALUES">> \o [i \in 1..num_values |->
        "(" \o Join2([j \in 1..nfields |-> "%s"], ", ") \o ")"]

\* SQLInsertCompiler.as_sql: the statements with their params, and the path
\* taken: "return_id", "bulk" or "per_object".
InsertAsSql(iq, return_id, conn) ==
    LET has_fields == Len(iq.fields) > 0
        columns == IF has_fields
                   THEN [i \in 1..Len(iq.fields) |-> QuoteName(iq.fields[i].column)]
                   ELSE <<QuoteName(Meta[iq.model].pk)>>
        result == <<"INSERT INTO " \o QuoteName(Meta[iq.model].db_table),
                    "(" \o Join2(columns, ", ") \o ")">>
        values == IF has_fields THEN iq.objs
                  ELSE [i \in 1..Len(iq.objs) |-> <<PkDefaultValue>>]
        params == IF has_fields THEN iq.objs ELSE << <<>> >>
        nfields == IF has_fields THEN Len(iq.fields) ELSE 1
        can_bulk == CanBulk(iq, return_id, conn)
        placeholders ==
            IF can_bulk THEN << [j \in 1..nfields |-> "%s"] >>
            ELSE [i \in 1..Len(values) |-> [j \in 1..nfields |->
                    Placeholder(has_fields,
                                IF has_fields THEN iq.fields[j] ELSE None,
                                values[i][j])]]
        zipped == IF Len(placeholders) < Len(params) THEN Len(placeholders)
                  ELSE Len(params)
    IN  IF return_id /\ conn.can_return_id_from_insert
        THEN [path |-> "return_id",
              statements |-> << [sql |-> result \o
                    <<"VALUES (" \o Join2(placeholders[1], ", ") \o ")",
                      "RETURNING " \o QuoteName(Meta[iq.model].db_table)
                        \o "." \o QuoteName(Meta[iq.model].pk)>>,
                  params |-> params[1]] >>]
        ELSE IF can_bulk
        THEN [path |-> "bulk",
              statements |-> << [sql |-> result \o
                                    BulkInsertSql(nfields, Len(values)),
                                 params |-> Flattened(values)] >>]
        ELSE [path |-> "per_object",
              statements |-> [i \in 1..zipped |->
                    [sql |-> result \o
                        <<"VALUES (" \o Join2(placeholders[i], ", ") \o ")">>,
                     params |-> params[i]]]]

\* SQLInsertCompiler.execute_sql(return_id): the assertion, one cursor, and
\* every statement of as_sql executed on it.
InsertExecuteSql(iq, return_id, conn) ==
    LET executed(c) ==
            [raised |-> "", path |-> c.path, cursors |-> 1,
             sent |-> c.statements,
             kind |-> IF return_id THEN "id" ELSE None]
    IN  IF return_id /\ Len(iq.objs) # 1
        THEN [raised |-> "AssertionError", path |-> "", cursors |-> 0,
              sent |-> <<>>, kind |-> "raised"]
        ELSE executed(InsertAsSql(iq, return_id, conn))

\* The fields an InsertQuery of the model can have: none, one, two, and one
\* of a class with get_placeholder.
InsertField(column, get_placeholder) ==
    [column |-> column, get_placeholder |-> get_placeholder]

InsertFields(model) ==
    LET column == IF model = "Book" THEN "pages" ELSE "age"
        other == IF model = "Book" THEN "author_id" ELSE "name"
    IN  {<<>>, <<InsertField(column, FALSE)>>,
         <<InsertField(other, FALSE), InsertField(column, FALSE)>>,
         <<InsertField(other, FALSE), InsertField(column, TRUE)>>}

\* InsertQuery.insert_values(fields, objs): object i has the value 10 * i + j
\* in its field j.
InsertValues(fields, nobjs) ==
    Changed(InsertQuery(query.model, fields,
                [i \in 1..nobjs |-> [j \in 1..Len(fields) |-> 10 * i + j]]))

\* query.get_compiler(using).execute_sql(return_id) of an InsertQuery
CallInsertExecuteSql(return_id) ==
    LET called(e) ==
            Called(IF return_id THEN "insert_execute_sql_return_id"
                   ELSE "insert_execute_sql",
                   query, Outcome(e.kind, <<>>, <<>>, <<>>, e.raised),
                   [path |-> e.path], e.cursors, e.sent)
    IN  called(InsertExecuteSql(query, return_id, connection))

\* The backends an INSERT is compiled for
InsertBackends ==
    {c \in Features :
        /\ ~c.has_select_for_update /\ ~c.has_select_for_update_nowait
        /\ c.can_use_chunked_reads /\ c.update_can_self_select
        /\ c.is_managed /\ ~c.use_tz}

InsertInit ==
    /\ query \in {InsertQuery(m, <<>>, <<>>) : m \in Models}
    /\ connection \in InsertBackends
    /\ SqlInit
    /\ CascadeIdle

InsertNext ==
    \/ \E fields \in InsertFields(query.model), nobjs \in 1..MaxObjs :
            InsertValues(fields, nobjs)
    \/ \E return_id \in BOOLEAN : CallInsertExecuteSql(return_id)

SpecInsert == InsertInit /\ [][InsertNext]_vars

(***************************************************************************)
(* Claims about the INSERT compiler                                         *)
(***************************************************************************)
\* The step is a call of SQLInsertCompiler.execute_sql that reached as_sql.
InsertStep ==
    /\ ops' = ops + 1
    /\ lastCall' \in {"insert_execute_sql", "insert_execute_sql_return_id"}
    /\ outcome'.raised = ""

\* C10: SQLInsertCompiler.as_sql takes the bulk path exactly when no
\* inserted field defines get_placeholder, no id is to be returned and the
\* backend has_bulk_insert; on that path it returns one statement whose
\* params are the values of all rows, flattened in the order of the objects.
C10_BulkInsertPath ==
    [][InsertStep =>
        /\ noted'.path = "bulk"
            <=> /\ \A i \in 1..Len(query.fields) :
                        ~query.fields[i].get_placeholder
                /\ lastCall' = "insert_execute_sql"
                /\ connection.has_bulk_insert
        /\ noted'.path = "bulk"
            => /\ Len(NewSent) = 1
               /\ Len(query.fields) > 0
                    => /\ Len(NewSent[1].params)
                            = Len(query.objs) * Len(query.fields)
                       /\ \A i \in 1..Len(query.objs) :
                          \A j \in 1..Len(query.fields) :
                            NewSent[1].params[(i - 1) * Len(query.fields) + j]
                                = query.objs[i][j]
               /\ Len(query.fields) = 0
                    => NewSent[1].params
                        = [i \in 1..Len(query.objs) |-> PkDefaultValue]]_vars

\* Two objects with two fields each have been inserted by one statement.
C10_Witness ==
    /\ lastCall = "insert_execute_sql"
    /\ noted.path = "bulk"
    /\ Len(query.objs) = 2
    /\ Len(query.fields) = 2
    /\ Len(sent) > 0
    /\ sent[Len(sent)].params = <<11, 12, 21, 22>>

(***************************************************************************)
(* Part VIII.  Queries with a GROUP BY clause                               *)
(***************************************************************************)
\* The lists Query.set_group_by() and the grouping by primary key set
\* query.group_by to: the empty list, and the primary key of the model.
GroupBys(model) ==
    {<<>>, << <<Meta[model].db_table, Meta[model].pk>> >>}

\* A query of a model after set_group_by.
GroupInit ==
    /\ query \in UNION {{[NewQuery(m) EXCEPT !.group_by = <<g>>] :
                            g \in GroupBys(m)} : m \in Models}
    /\ connection \in SelectBackends
    /\ SqlInit
    /\ CascadeIdle

GroupNext ==
    \/ \E names \in Orderings(query.model) : OrderBy(names)
    \/ \E fields \in {<<>>} \cup {<<p>> : p \in FilterPaths(query.model)} :
            Distinct(fields)
    \/ \E with_limits \in BOOLEAN : CallAsSql(with_limits)
    \/ \E result_type \in {MULTI, SINGLE, None}, fetched \in 0..MaxFetched :
            CallExecuteSql(result_type, fetched)

SpecGroup == GroupInit /\ [][GroupNext]_vars

\* C13: compiling a query that has DISTINCT ON fields and a GROUP BY clause
\* that is not empty fails with FieldError and returns no SQL.
C13_DistinctOnWithGroupByFails ==
    [][(AsSqlStep
            /\ Len(query.distinct_fields) > 0
            /\ Len(query.group_by[1]) > 0)
        => (outcome'.raised = FieldError /\ outcome'.sql = <<>>)]_vars

(***************************************************************************)
(* Part IX.  Filters with nested and custom lookups                         *)
(***************************************************************************)
\* The filters given to filter(): a path, the lookups used as prefix, the
\* final lookup and its value (name__lower__exact=1, age__exact__div3=1).
LookupFilters(model) ==
    [path : FilterPaths(model),
     nesting : {<<>>, <<"div3">>, <<"lower">>, <<"exact">>,
                <<"lower", "div3">>, <<"div3", "exact">>},
     type : {"exact", "div3", "lower"}, value : {<<1>>},
     rhs_query : {<<>>}]

LookupInit ==
    /\ query \in {NewQuery(m) : m \in Models}
    /\ connection \in SelectBackends
    /\ SqlInit
    /\ CascadeIdle

LookupNext ==
    \/ \E f \in LookupFilters(query.model) : Filter(f)
    \/ \E with_limits \in BOOLEAN : CallAsSql(with_limits)

SpecLookup == LookupInit /\ [][LookupNext]_vars

\* A lookup class of the filter is used where it cannot be: as a prefix
\* without supports_nesting, or as the final lookup without
\* supports_filtering.
Misused(f) ==
    \/ \E i \in 1..Len(f.nesting) : ~SupportsNesting(f.nesting[i])
    \/ ~SupportsFiltering(f.type)

RECURSIVE WellBuilt(_)
\* The lookup and the lookups it is built on are used where their classes
\* allow it.
WellBuilt(node) ==
    \/ node.kind = "col"
    \/ /\ IF node.has_value THEN SupportsFiltering(node.type)
                             ELSE SupportsNesting(node.type)
       /\ WellBuilt(node.lhs)

\* C16: a filter raises LookupError exactly when one of its prefix lookups
\* lacks supports_nesting or its final lookup lacks supports_filtering; the
\* failing filter leaves no lookup in the query, the others add one lookup
\* built of supported uses only.
C16_UnsupportedUseRaises ==
    [][\A f \in LookupFilters(query.model) :
        Filter(f) =>
            IF Misused(f)
            THEN outcome'.raised = LookupError /\ query' = query
            ELSE /\ lastCall' = ""
                 /\ Len(query'.where) = Len(query.where) + 1
                 /\ WellBuilt(query'.where[Len(query'.where)])
                 /\ query'.where[Len(query'.where)].type = f.type
       ]_vars

\* A filter ending in a lookup without supports_filtering, or going through
\* one without supports_nesting, has raised.
C16_Witness ==
    /\ lastCall = "filter"
    /\ outcome.raised = LookupError
    /\ ops = 2
    /\ Len(query.where) = 1
    /\ WellBuilt(query.where[1])
    /\ query.where[1].lhs.kind = "lookup"

(***************************************************************************)
(* Part X.  Annotated queries with deferred fields                          *)
(***************************************************************************)
\* QuerySet.annotate(n=Count(pk)) on a model: every field of the model is
\* selected and grouped by, and the aggregate is added to aggregate_select.
Annotated(model) ==
    LET counted(q) ==
            [q EXCEPT
                !.group_by = <<q.select>>,
                !.aggregate_select =
                    << Aggregate("n", "COUNT",
                                 <<q.tables[1], Meta[model].pk>>) >>]
    IN  counted(AddFields(NewQuery(model),
                          [i \in 1..Len(Meta[model].fields) |->
                              Meta[model].fields[i].name]))

\* The columns QuerySet.only(*fields) leaves to load: the primary key and
\* the columns of the fields named.
OnlyLoads(model) ==
    {cols \in SUBSET {Meta[model].fields[i].column :
                        i \in 1..Len(Meta[model].fields)} :
        Meta[model].pk \in cols}

\* QuerySet.only(*fields): Query.add_immediate_loading, as
\* deferred_to_columns() reports it.
Only(cols) == Changed([query EXCEPT !.only_load = cols])

AggregateInit ==
    /\ query \in {Annotated(m) : m \in Models}
    /\ connection \in SelectBackends
    /\ SqlInit
    /\ CascadeIdle

AggregateNext ==
    \/ \E cols \in OnlyLoads(query.model) : Only(cols)
    \/ \E names \in Orderings(query.model) : OrderBy(names)
    \/ \E with_limits \in BOOLEAN : CallAsSql(with_limits)
    \/ \E fetched \in 0..MaxFetched : CallResultsIter(fetched)

SpecAggregate == AggregateInit /\ [][AggregateNext]_vars

ResultsIterStep == ops' = ops + 1 /\ lastCall' = "results_iter"

\* C15: every row results_iter yields has one value for each column
\* get_columns emitted, in the order of the columns, and the values converted
\* by resolve_aggregate are exactly those at the positions of the aggregate
\* columns, whether or not some selected columns are deferred.
C15_AggregatesConvertedInPlace ==
    [][(ResultsIterStep /\ outcome'.kind = "rows")
        => \A r \in 1..Len(outcome'.rows) :
            /\ Len(outcome'.rows[r]) = Len(GetColumns(query'))
            /\ \A i \in 1..Len(outcome'.rows[r]) :
                    outcome'.rows[r][i] =
                        IF GetColumns(query')[i][1] = None THEN 0 - i ELSE i
       ]_vars

(***************************************************************************)
(* Part XI.  Col, RefCol and SimpleLookup as objects: relabeled_clone        *)
(***************************************************************************)
\* An object of the heap. ref is the identity of the object it is built on
\* (RefCol.col, SimpleLookup.lhs) and rhs that of a value that is an object
\* itself; 0 stands for no object.
ColObj(alias, column) ==
    [cls |-> "Col", alias |-> alias, column |-> column, ref |-> 0,
     type |-> "", has_value |-> FALSE, value |-> <<>>, rhs |-> 0]

RefColObj(col) ==
    [cls |-> "RefCol", alias |-> "", column |-> "", ref |-> col,
     type |-> "", has_value |-> FALSE, value |-> <<>>, rhs |-> 0]

LookupObj(type, lhs, has_value, value, rhs) ==
    [cls |-> "SimpleLookup", alias |-> "", column |-> "", ref |-> lhs,
     type |-> type, has_value |-> has_value, value |-> value, rhs |-> rhs]

\* A constructor call: the object gets an identity no other object has.
Alloc(h, obj) == [heap |-> Append(h, obj), ret |-> Len(h) + 1]

\* change_map.get(alias, alias)
ChangeMapGet(change_map, alias) ==
    IF alias \in DOMAIN change_map THEN change_map[alias] ELSE alias

\* Mutant: Col.relabeled_clone that assigns self.alias and returns self.
ColRelabeledInPlace(h, id, change_map) ==
    [heap |-> [h EXCEPT ![id].alias = ChangeMapGet(change_map, @)],
     ret |-> id]

\* Col.relabeled_clone: self.__class__(change_map.get(self.alias,
\* self.alias), self.field, self.output_type)
ColRelabeledClone(h, id, change_map) ==
    Alloc(h, ColObj(ChangeMapGet(change_map, h[id].alias), h[id].column))

RECURSIVE ObjRelabeledClone(_, _, _)
\* relabeled_clone(change_map) of the object id. RefCol: an Empty object
\* gets a copy of self.__dict__, then the clone of self.col as its col.
\* SimpleLookup: the value is cloned if it has relabeled_clone, then lhs,
\* and the constructor of the class is called with them.
ObjRelabeledClone(h, id, change_map) ==
    LET refcol(clone) ==
            LET with(col) ==
                    [heap |-> [col.heap EXCEPT ![clone.ret].ref = col.ret],
                     ret |-> clone.ret]
            IN  with(ObjRelabeledClone(clone.heap, h[id].ref, change_map))
        lookup(value) ==
            LET on(lhs) ==
                    Alloc(lhs.heap,
                          LookupObj(h[id].type, lhs.ret, h[id].has_value,
                                    h[id].value, value.ret))
            IN  on(ObjRelabeledClone(value.heap, h[id].ref, change_map))
    IN  CASE h[id].cls = "Col" -> ColRelabeledClone(h, id, change_map)
          [] h[id].cls = "RefCol" -> refcol(Alloc(h, h[id]))
          [] OTHER ->
                lookup(IF h[id].rhs # 0
                       THEN ObjRelabeledClone(h, h[id].rhs, change_map)
                       ELSE [heap |-> h, ret |-> 0])

\* The aliases of the queries and the maps Query.change_aliases and
\* bump_prefix pass to relabeled_clone.
RelabelAliases == {"book", "author", "T1"}

ChangeMaps ==
    {[a \in {"book"} |-> "U0"], [a \in {"author", "T1"} |-> "U1"],
     [a \in {"book", "author"} |-> IF a = "book" THEN "author" ELSE "book"]}

\* The objects of a where clause and a select list: a column, a RefCol on a
\* column, name__lower__exact=1 and id__exact=<column>.
Heaps ==
    UNION {{ << ColObj(a, "id") >>,
             << ColObj(a, "id"), RefColObj(1) >>,
             << ColObj(a, "name"), LookupObj("lower", 1, FALSE, <<>>, 0),
                LookupObj("exact", 2, TRUE, <<1>>, 0) >>,
             << ColObj(a, "id"), ColObj(b, "author_id"),
                LookupObj("exact", 1, TRUE, <<>>, 2) >> } :
           a \in RelabelAliases, b \in RelabelAliases}

\* obj.relabeled_clone(change_map)
CallRelabeledClone(id, change_map) ==
    LET called(r) ==
            /\ ops < MaxOps
            /\ ops' = ops + 1
            /\ lastCall' = "relabeled_clone"
            /\ heap' = r.heap
            /\ outcome' = Outcome("object", <<r.ret>>, <<>>, <<>>, "")
            /\ UNCHANGED <<query, connection, noted, cursors, closed, dirty,
                           sent, cascadeVars, tpl>>
    IN  called(ObjRelabeledClone(heap, id, change_map))

RelabelInit ==
    /\ heap \in Heaps
    /\ query = NewQuery("Book")
    /\ connection = CHOOSE c \in Features : \A f \in DOMAIN c : ~c[f]
    /\ lastCall = ""
    /\ outcome = NoOutcome
    /\ noted = <<>>
    /\ cursors = 0
    /\ closed = 0
    /\ dirty = FALSE
    /\ sent = <<>>
    /\ ops = 0
    /\ CascadeIdle

RelabelNext ==
    \E id \in 1..Len(heap), change_map \in ChangeMaps :
        CallRelabeledClone(id, change_map)

SpecRelabel == RelabelInit /\ [][RelabelNext]_vars

RECURSIVE Flat(_, _)
\* The object id and the objects it is built on, in the order lhs, value,
\* without their identities.
Flat(h, id) ==
    IF id = 0 THEN <<>>
    ELSE << [h[id] EXCEPT !.ref = 0, !.rhs = 0] >>
         \o Flat(h, h[id].ref) \o Flat(h, h[id].rhs)

RECURSIVE Parts(_, _)
\* The identities of the object id and of the objects it is built on.
Parts(h, id) ==
    IF id = 0 THEN {}
    ELSE {id} \cup Parts(h, h[id].ref) \cup Parts(h, h[id].rhs)

\* C17: relabeled_clone(change_map) on a Col, a RefCol or a SimpleLookup
\* returns an object built of new objects only, equal to the receiver but for
\* the aliases, which are replaced as change_map says and kept when the map
\* does not name them; the receiver and every object that existed before
\* the call are as they were.
C17_RelabeledCloneIsNew ==
    [][\A id \in 1..Len(heap), change_map \in ChangeMaps :
        CallRelabeledClone(id, change_map) =>
            /\ Parts(heap', outcome'.rows[1]) \cap (1..Len(heap)) = {}
            /\ \A i \in 1..Len(heap) : heap'[i] = heap[i]
            /\ Flat(heap', outcome'.rows[1]) =
                    [i \in 1..Len(Flat(heap, id)) |->
                        [Flat(heap, id)[i] EXCEPT
                            !.alias = IF @ \in DOMAIN change_map
                                      THEN change_map[@] ELSE @]]
       ]_vars

\* A lookup built on a lookup was cloned with a map that names its alias,
\* and the clone cloned again.
C17_Witness ==
    /\ lastCall = "relabeled_clone"
    /\ ops = 2
    /\ heap[outcome.rows[1]].cls = "SimpleLookup"
    /\ heap[heap[outcome.rows[1]].ref].cls = "SimpleLookup"
    /\ Flat(heap, outcome.rows[1])[3].alias = "U0"
    /\ Flat(heap, 3)[3].alias = "book"

(***************************************************************************)
(* Part XII.  Default orderings that follow relations round a loop          *)
(***************************************************************************)
\* The orderings given to order_by() on a model with a loop: none (the
\* default ordering), the primary key, the foreign key, and the primary key
\* of the related model.
LoopOrderings(model) ==
    IF model \in Models THEN Orderings(model)
    ELSE {<<>>, <<Ord(<<"id">>, FALSE)>>,
          <<Ord(<<Meta[model].fields[2].name>>, TRUE)>>,
          <<Ord(<<Meta[model].fields[2].name, "id">>, FALSE)>>}

\* The models whose default orderings follow a foreign key.
LoopModels == {"LoopX", "LoopY", "LoopZ"}

OrderingInit ==
    /\ query \in {NewQuery(m) : m \in Models \cup LoopModels}
    /\ connection \in SelectBackends
    /\ SqlInit
    /\ CascadeIdle

OrderingNext ==
    \/ \E names \in LoopOrderings(query.model) : OrderBy(names)
    \/ \E with_limits \in BOOLEAN : CallAsSql(with_limits)
    \/ \E fetched \in 0..MaxFetched : CallExecuteSql(MULTI, fetched)

SpecOrdering == OrderingInit /\ [][OrderingNext]_vars

RECURSIVE RelatedBy(_, _)
\* The model the path of an ordering name ends at when its last field is a
\* relation, "" when it is a column.
RelatedBy(model, pieces) ==
    IF Len(pieces) = 1 THEN GetField(model, pieces[1]).rel
    ELSE RelatedBy(GetField(model, pieces[1]).rel, Tail(pieces))

\* The model whose default ordering an ordering name pulls in, "" when it
\* pulls in none.
PullsIn(model, item) ==
    IF RelatedBy(model, item.name) = "" THEN ""
    ELSE IF Len(Meta[RelatedBy(model, item.name)].ordering) = 0 THEN ""
    ELSE RelatedBy(model, item.name)

\* The models whose default orderings the default ordering of a model
\* pulls in.
PulledInBy(model) ==
    {PullsIn(model, Meta[model].ordering[i]) :
        i \in 1..Len(Meta[model].ordering)} \ {""}

RECURSIVE PulledInWithin(_, _)
\* The models reached from ms by at most n default orderings.
PulledInWithin(ms, n) ==
    IF n = 0 THEN ms
    ELSE PulledInWithin(ms \cup UNION {PulledInBy(m) : m \in ms}, n - 1)

\* The default ordering of the model leads back to the model.
OnOrderingLoop(model) ==
    model \in PulledInWithin(PulledInBy(model), Cardinality(DOMAIN Meta))

\* The ordering of the query pulls in the default ordering of a model from
\* which a loop of default orderings is reached.
OrdersRoundLoop(q) ==
    \E i \in 1..Len(QueryOrdering(q)) :
        /\ PullsIn(q.model, QueryOrdering(q)[i]) # ""
        /\ \E m \in PulledInWithin({PullsIn(q.model, QueryOrdering(q)[i])},
                                    Cardinality(DOMAIN Meta)) :
                OnOrderingLoop(m)

\* C18: find_ordering_name ends for every graph of default orderings: the
\* compilation never runs into the recursion limit; an ordering that leads
\* round a loop of default orderings makes as_sql raise FieldError and
\* return no SQL, any other ordering is compiled.
C18_OrderingLoopRaises ==
    [][AsSqlStep =>
        /\ outcome'.raised # RuntimeError
        /\ OrdersRoundLoop(query) =>
                (outcome'.raised = FieldError /\ outcome'.sql = <<>>)
        /\ ~OrdersRoundLoop(query) => outcome'.raised = ""
       ]_vars

\* as_sql has raised FieldError for a query on LoopX whose ordering went
\* from LoopX to LoopY and back before the join tables repeated.
C18_Witness ==
    /\ lastCall \in {"as_sql", "as_sql_no_limits"}
    /\ outcome.raised = FieldError
    /\ query.model = "LoopX"
    /\ Len(query.tables) >= 3

(***************************************************************************)
(* Part XIII.  select_related on queries compiled before                    *)
(***************************************************************************)
\* The arguments of select_related() on the model: none, and the names of
\* its relations.
SelectRelateds(model) ==
    {SelectRelatedAll}
    \cup {SelectRelatedFields({<<Meta[model].fields[i].name>>}) :
            i \in {k \in 1..Len(Meta[model].fields) :
                        Meta[model].fields[k].rel # ""}}

\* A query of a model with an ordering, as order_by() left it.
OrderedQueries ==
    UNION {{[NewQuery(m) EXCEPT !.order_by = names] :
                names \in Orderings(m)} : m \in Models}

\* A query with an ordering, new or compiled once already.
RelatedInit ==
    /\ connection = CHOOSE c \in Features : \A f \in DOMAIN c : ~c[f]
    /\ query \in OrderedQueries
                \cup {AsSql(q, connection, TRUE).q : q \in OrderedQueries}
    /\ SqlInit
    /\ CascadeIdle

RelatedNext ==
    \/ \E select_related \in SelectRelateds(query.model) :
            SelectRelated(select_related)
    \/ \E f \in Filters(query.model) : Filter(f)
    \/ \E names \in Orderings(query.model) : OrderBy(names)
    \/ \E fields \in {<<>>} \cup {<<p>> : p \in FilterPaths(query.model)} :
            Distinct(fields)
    \/ \E with_limits \in BOOLEAN : CallAsSql(with_limits)
    \/ \E fetched \in 0..MaxFetched : CallResultsIter(fetched)

SpecRelated == RelatedInit /\ [][RelatedNext]_vars

ParamLhs(alias) ==
    LET cols == {Col(alias, "age")}
                    \cup {RefSQL([i \in 1..n |-> 100 + i]) : n \in 0..2}
    IN  cols \cup {Lookup("div3", c, FALSE, <<>>) : c \in cols}

\* The values a lookup class is built with, as get_prep_lookup leaves them:
\* a list for `in`, the two bounds for range and year, a boolean for isnull.
ParamValues(type) ==
    CASE type = "in" -> InValues
      [] type \in {"range", "year"} -> {<<1, 2>>}
      [] type = "isnull" -> {<<TRUE>>, <<FALSE>>}
      [] OTHER -> {<<1>>}

LookupTypes ==
    {"exact", "gt", "in", "range", "year", "isnull", "div3"} \cup DateParts

\* The lookups of every class over every left-hand side.
ParamLookups(alias) ==
    UNION {{Lookup(type, lhs, TRUE, value) :
                lhs \in ParamLhs(alias), value \in ParamValues(type)} :
           type \in LookupTypes}

\* lookup.as_sql(qn, connection) of the i-th child of query.where
CallLookupAsSql(i) ==
    /\ i \in 1..Len(query.where)
    /\ Called("lookup_as_sql", query,
              SqlOutcome(LookupAsSql(query, connection, query.where[i])),
              noted, 0, <<>>)

\* query.where.add(lookup, AND)
AddLookup(l) == Changed([query EXCEPT !.where = Append(@, l)])

ParamsInit ==
    /\ query \in {[GetInitialAlias(NewQuery("Author")).q
                        EXCEPT !.where = <<l>>] : l \in ParamLookups("author")}
    /\ connection \in {c \in Features :
                            \A f \in DOMAIN c : f # "use_tz" => ~c[f]}
    /\ SqlInit
    /\ CascadeIdle

ParamsNext ==
    \/ \E i \in 1..2 : CallLookupAsSql(i)
    \/ \E l \in ParamLookups("author") : l.type = "exact" /\ AddLookup(l)

SpecParams == ParamsInit /\ [][ParamsNext]_vars

\* The number of %s placeholders in the SQL.
Placeholders(sql) == Cardinality({i \in DOMAIN sql : sql[i] = "%s"})

\* The params the extraction of a date part brings: the time zone name.
ExtractParams(conn, l) ==
    IF l.type \in DateParts /\ conn.use_tz THEN <<Tzname>> ELSE <<>>

\* C21: as_sql of a lookup of any class returns as many params as its SQL
\* has %s placeholders, in placeholder order: the params of the left-hand
\* side, then those of the right-hand side (for a date part the time zone of
\* the extraction stands between them); n params for `in` with n values.
C21_ParamsInPlaceholderOrder ==
    [][\A i \in 1..2 :
        (CallLookupAsSql(i) /\ outcome'.raised = "") =>
            LET l == query.where[i]
            IN  /\ Placeholders(outcome'.sql) = Len(outcome'.params)
                /\ outcome'.params =
                       LhsAsSql(query, connection, l.lhs).params
                       \o ExtractParams(connection, l)
                       \o (IF l.type = "isnull" THEN <<>>
                           ELSE FieldGetDbPrepLookup(l.type, l.value))
       ]_vars

(***************************************************************************)
(* Part XV.  UPDATE with several related updates                            *)
(***************************************************************************)
MaxRelated == 2     \* related updates of one UpdateQuery

\* The models whose tables hold fields of the updated model.
RelatedModels == {"Author", "LoopZ"}

\* related_updates of the UpdateQuery: up to MaxRelated other models, each
\* with the value of one of its columns.
RelatedUpdateSeqs ==
    LET related(m) ==
            [model |-> m,
             values |-> <<[column |-> Meta[m].fields[Len(Meta[m].fields)].column,
                           val |-> <<7>>]>>]
    IN  UNION {{[i \in 1..n |-> related(ms[i])] :
                    ms \in {s \in [1..n -> RelatedModels] :
                                \A i, j \in 1..n : i # j => s[i] # s[j]}} :
               n \in 0..MaxRelated}

RelatedUpdateInit ==
    /\ query \in {[NewQuery("Book") EXCEPT !.values = values,
                                           !.related_updates = related] :
                    values \in {<<>>} \cup
                        {v \in UpdateValues("Book") : Len(v[1].val) > 0},
                    related \in RelatedUpdateSeqs}
    /\ connection \in UpdateBackends
    /\ SqlInit
    /\ CascadeIdle

\* QuerySet.update() builds its UpdateQuery and executes it once.
RelatedUpdateNext ==
    \/ \E f \in Filters(query.model) :
            f.nesting = <<>> /\ f.type = "in" /\ f.path = <<"pages">> /\ Filter(f)
    \/ \E matching \in InValues, rowcount \in 0..MaxRowcount,
          aux_rowcounts \in [1..Len(query.related_updates) -> 0..MaxRowcount] :
            /\ sent = <<>>
            /\ CallUpdateExecuteSql(matching, rowcount, aux_rowcounts)

SpecRelatedUpdate == RelatedUpdateInit /\ [][RelatedUpdateNext]_vars

\* The positions among the statements the step executed of the UPDATEs of
\* the model's table.
UpdatesOf(model) ==
    {k \in 1..Len(NewSent) :
        /\ NewSent[k].sql[1] = "UPDATE"
        /\ NewSent[k].sql[2] = QuoteName(Meta[model].db_table)}

\* The related updates that executed a statement.
RelatedExecuted ==
    {i \in 1..Len(query.related_updates) :
        UpdatesOf(query.related_updates[i].model) # {}}

\* C22: SQLUpdateCompiler.execute_sql executes the primary update, then the
\* related updates in their order, and returns the row count of the primary
\* statement when it was executed, else that of the first related update
\* that executed a statement, else 0.
C22_RowsOfFirstExecutedUpdate ==
    [][(UpdateStep /\ outcome'.raised = "") =>
            /\ \A k \in UpdatesOf(query.model) :
                    \A i \in RelatedExecuted :
                        \A n \in UpdatesOf(query.related_updates[i].model) :
                            k < n
            /\ \A i, j \in RelatedExecuted :
                    i < j =>
                        \A k \in UpdatesOf(query.related_updates[i].model),
                           n \in UpdatesOf(query.related_updates[j].model) :
                            k < n
            /\ \A i \in 1..Len(query.related_updates) :
                    Cardinality(UpdatesOf(query.related_updates[i].model)) =
                        IF Len(query'.related_ids[1]) > 0 THEN 1 ELSE 0
            /\ Cardinality(UpdatesOf(query.model)) <= 1
            /\ outcome'.rows =
                    IF UpdatesOf(query.model) # {}
                    THEN <<NewSent[CHOOSE k \in UpdatesOf(query.model) : TRUE]
                                .rowcount>>
                    ELSE IF RelatedExecuted # {}
                    THEN LET first == CHOOSE i \in RelatedExecuted :
                                        \A j \in RelatedExecuted : i <= j
                         IN  <<NewSent[CHOOSE k \in UpdatesOf(
                                    query.related_updates[first].model) : TRUE]
                                    .rowcount>>
                    ELSE <<0>>
       ]_vars

\* The primary update had no values of its own: no statement for its table
\* was executed, two related updates were, and the rows returned are those
\* of the first of them, which differ from those of the second.
C22_Witness ==
    /\ lastCall = "update_execute_sql"
    /\ outcome.raised = ""
    /\ Len(query.values) = 0
    /\ Len(query.related_updates) = 2
    /\ Len(sent) = 3
    /\ sent[2].sql[1] = "UPDATE" /\ sent[3].sql[1] = "UPDATE"
    /\ sent[2].sql[2] = QuoteName(Meta[query.related_updates[1].model].db_table)
    /\ outcome.rows = <<sent[2].rowcount>>
    /\ sent[3].rowcount # sent[2].rowcount

(***************************************************************************)
(* Part XVI.  Grammar of the class-based template tags,                     *)
(* django/template/generic.py                                               *)
(***************************************************************************)
MaxTokens == 4      \* block tokens of the template after the opening tag

TemplateSyntaxError == "TemplateSyntaxError"

\* Tag names and token contents are strings, written as their characters.
TagIf == <<"i", "f">>
TagElif == <<"e", "l", "i", "f">>
TagEl == <<"e", "l">>
TagElse == <<"e", "l", "s", "e">>
TagEndif == <<"e", "n", "d", "i", "f">>

\* One tag of a grammar: its name and its modifier, None for no suffix.
Tag(name, flag) == [name |-> name, flag |-> flag]

\* Grammar.__init__ leaves self._grammar: the grammars the constructor
\* accepts have no modifier on their first and last tag and no name twice.
ValidGrammar(tags) ==
    /\ Len(tags) > 0
    /\ tags[1].flag = None
    /\ tags[Len(tags)].flag = None
    /\ \A i, j \in 1..Len(tags) : i # j => tags[i].name # tags[j].name

\* 'if elif* else? endif' (IfNode), 'if elif+ endif', 'if else endif',
\* 'if A* B C? D+ endif' (the shape of ComplexGrammar1), 'if', and two
\* grammars in which the name of a tag begins with the name of the tag
\* before it: 'if el? else endif' and 'if el* else endif'.
Grammars ==
    {g \in {<<Tag(TagIf, None), Tag(TagElif, "*"), Tag(TagElse, "?"),
              Tag(TagEndif, None)>>,
            <<Tag(TagIf, None), Tag(TagElif, "+"), Tag(TagEndif, None)>>,
            <<Tag(TagIf, None), Tag(TagElse, None), Tag(TagEndif, None)>>,
            <<Tag(TagIf, None), Tag(<<"A">>, "*"), Tag(<<"B">>, None),
              Tag(<<"C">>, "?"), Tag(<<"D">>, "+"), Tag(TagEndif, None)>>,
            <<Tag(TagIf, None), Tag(TagEl, "?"), Tag(TagElse, None),
              Tag(TagEndif, None)>>,
            <<Tag(TagIf, None), Tag(TagEl, "*"), Tag(TagElse, None),
              Tag(TagEndif, None)>>,
            <<Tag(TagIf, None)>>} : ValidGrammar(g)}

\* token.contents.startswith(name)
StartsWith(contents, name) ==
    /\ Len(name) <= Len(contents)
    /\ SubSeq(contents, 1, Len(name)) = name

\* token.contents.split()[0]: the contents up to the first blank.
Command(contents) ==
    IF \E i \in 1..Len(contents) : contents[i] = " "
    THEN SubSeq(contents, 1,
                (CHOOSE i \in 1..Len(contents) :
                    /\ contents[i] = " "
                    /\ \A j \in 1..(i - 1) : contents[j] # " ") - 1)
    ELSE contents

\* _grammar[::2]: the names of the tags.
TagNames(grammar) == {grammar[i].name : i \in 1..Len(grammar)}

\* What Grammar.parse returned or raised: the parts (the name matched and the
\* token), the tokens left to the parser, and the tags the error names.
Parsed(parts, tokens) ==
    [raised |-> "", parts |-> parts, tokens |-> tokens, expected |-> {}]

SyntaxError(expected) ==
    [raised |-> TemplateSyntaxError, parts |-> <<>>, tokens |-> <<>>,
     expected |-> expected]

\* parser.parse(parse_until) over block tokens that are tags of the grammar:
\* it returns at the first token whose command is in parse_until, leaving it
\* to next_token(); any other block tag is compiled, which fails for a tag
\* that is no opening tag (invalid_block_tag), and the end of the template
\* fails as well (unclosed_block_tag).
ParserParse(tokens, parse_until) ==
    IF Len(tokens) = 0 THEN SyntaxError(parse_until)
    ELSE IF Command(Head(tokens)) \in parse_until THEN Parsed(<<>>, tokens)
    ELSE SyntaxError(parse_until)

\* Grammar.parse(parser, token): the loop over _grammar. A tag matches the
\* token when the contents of the token start with its name.
RECURSIVE GrammarParse(_, _, _, _)
GrammarParse(grammar, token, tokens, parts) ==
    IF Len(grammar) = 0 THEN Parsed(parts, tokens)
    ELSE IF StartsWith(token, grammar[1].name)
    THEN LET part == [name |-> grammar[1].name, token |-> token]
             nodelist(g, p) ==
                IF p.raised # "" THEN p
                ELSE GrammarParse(g, Head(p.tokens), Tail(p.tokens),
                                  Append(parts, part))
             rest(g) == nodelist(g, ParserParse(tokens, TagNames(g)))
         IN  IF Len(grammar) = 1 THEN Parsed(Append(parts, part), tokens)
             ELSE IF grammar[1].flag = "+"
             THEN rest([grammar EXCEPT ![1].flag = "*"])
             ELSE IF grammar[1].flag \in {None, "?"} THEN rest(Tail(grammar))
             ELSE rest(grammar)
    ELSE IF grammar[1].flag \in {"?", "*"}
    THEN GrammarParse(Tail(grammar), token, tokens, parts)
    ELSE SyntaxError({grammar[1].name})

\* The contents of the block tokens of a tag: the name, alone or followed by
\* arguments.
Contents(name) == {name, name \o <<" ", "x">>}

\* The templates of a grammar: the token of the opening tag, then up to
\* MaxTokens block tokens of the other tags of the grammar.
Templates(grammar) ==
    LET inner == UNION {Contents(n) : n \in TagNames(grammar) \ {grammar[1].name}}
    IN  UNION {[1..n -> inner] : n \in 0..MaxTokens}

\* cls.grammar.parse(parser, token), called by the compile function of the
\* tag when the parser meets the opening tag.
CallGrammarParse ==
    /\ tpl.result = <<>>
    /\ tpl' = [tpl EXCEPT !.result =
                    << GrammarParse(tpl.grammar, tpl.token, tpl.tokens, <<>>) >>]
    /\ UNCHANGED <<cascadeVars, sqlVars>>

GrammarInit ==
    /\ tpl \in UNION {[grammar : {g}, token : Contents(g[1].name),
                       tokens : Templates(g), result : {<<>>}] : g \in Grammars}
    /\ SqlIdle
    /\ schema = BasicSchema
    /\ db = [c \in FkCols(BasicSchema) |-> [r \in Rows |-> "bar"]]
    /\ stack = << Frame(<<>>) >>
    /\ cpc = "build"
    /\ clog = <<>>
    /\ nextId = 1
    /\ db0 = db

GrammarNext == CallGrammarParse

SpecGrammar == GrammarInit /\ [][GrammarNext]_vars

RECURSIVE Matches(_, _)
\* The names match the grammar read as an ordered pattern: a tag without
\* suffix once, with ? at most once, with * any number of times, with + at
\* least once.
Matches(grammar, names) ==
    IF Len(grammar) = 0 THEN Len(names) = 0
    ELSE LET tag == grammar[1]
             here == Len(names) > 0 /\ names[1] = tag.name
         IN  CASE tag.flag = None -> here /\ Matches(Tail(grammar), Tail(names))
               [] tag.flag = "?" ->
                    \/ Matches(Tail(grammar), names)
                    \/ here /\ Matches(Tail(grammar), Tail(names))
               [] tag.flag = "*" ->
                    \/ Matches(Tail(grammar), names)
                    \/ here /\ Matches(grammar, Tail(names))
               [] tag.flag = "+" ->
                    here /\ Matches([grammar EXCEPT ![1].flag = "*"],
                                    Tail(names))

\* The tags of the template as the parser meets them, the opening tag
\* first, up to the first closing tag of the grammar.
TagsMet(t) ==
    LET all == <<t.token>> \o t.tokens
        last == t.grammar[Len(t.grammar)].name
        closing == {i \in 1..Len(all) : Command(all[i]) = last}
        upto == IF closing = {} THEN Len(all)
                ELSE CHOOSE i \in closing : \A j \in closing : i <= j
    IN  SubSeq(all, 1, upto)

\* C23: Grammar.parse accepts the tags of a template exactly when their
\* names match the grammar read as an ordered pattern; it then returns one
\* part per tag, in the order of the template, under the name of the tag;
\* otherwise it raises TemplateSyntaxError naming a tag it expected.
C23_ParseAcceptsThePattern ==
    [][CallGrammarParse =>
        LET met == TagsMet(tpl)
            res == tpl'.result[1]
        IN  IF Matches(tpl.grammar, [i \in 1..Len(met) |-> Command(met[i])])
            THEN /\ res.raised = ""
                 /\ Len(res.parts) = Len(met)
                 /\ \A i \in 1..Len(met) :
                        /\ res.parts[i].token = met[i]
                        /\ res.parts[i].name = Command(met[i])
            ELSE /\ res.raised = TemplateSyntaxError
                 /\ res.expected # {}
                 /\ res.expected \subseteq TagNames(tpl.grammar)
       ]_vars

(***************************************************************************)
(* Part XVII.  select_related along chains of relations                     *)
(***************************************************************************)
MaxPath == 2        \* relations on one path given to select_related()

\* The relations of the model that select_related() can name: its foreign
\* keys and the unique foreign keys that point at it.
Relations(model) ==
    {[name |-> f.name, to |-> f.rel] :
        f \in {g \in SeqRange(Meta[model].fields) : g.rel # ""}}
    \cup {[name |-> RelatedQueryName(o.model), to |-> o.model] :
            o \in SeqRange(RelatedFields(model))}

RECURSIVE PathsFrom(_, _)
\* The paths of up to n relations from the model.
PathsFrom(model, n) ==
    IF n = 0 THEN {<<>>}
    ELSE {<<>>} \cup UNION {{<<r.name>> \o p : p \in PathsFrom(r.to, n - 1)} :
                                r \in Relations(model)}

\* The arguments of select_related() on the model: none, one path
\* ('rev_fk__fk') or two.
ChainSelectRelateds(model) ==
    LET paths == PathsFrom(model, MaxPath) \ {<<>>}
    IN  {SelectRelatedAll}
        \cup {SelectRelatedFields({p1, p2}) : p1 \in paths, p2 \in paths}

\* query.get_compiler(using).fill_related_selections(), called as
\* pre_sql_setup calls it: the outcome holds the calls of query.join.
CallFillRelatedSelections ==
    LET called(r) ==
            Called("fill_related_selections", r.q,
                   Outcome("joins", r.joins, <<>>, <<>>, ""), noted, 0, <<>>)
    IN  /\ query.select_related.on
        /\ Len(query.related_select_cols) = 0
        /\ called(FillRelated(query))

\* The models with relations.
ChainModels == {"Book", "RecursiveRef1", "RecursiveRef2"}

\* A query of a model with relations, new or compiled once already.
ChainInit ==
    /\ connection = CHOOSE c \in Features : \A f \in DOMAIN c : ~c[f]
    /\ query \in {NewQuery(m) : m \in ChainModels}
                \cup {AsSql(NewQuery(m), connection, TRUE).q : m \in ChainModels}
    /\ SqlInit
    /\ CascadeIdle

\* select_related() is called once on the new query, which is then set up.
ChainNext ==
    \/ \E select_related \in ChainSelectRelateds(query.model) :
            /\ ~query.select_related.on
            /\ SelectRelated(select_related)
    \/ CallFillRelatedSelections

SpecChain == ChainInit /\ [][ChainNext]_vars

\* The calls, among those made before the i-th, that followed the relations
\* on the path from the root model to the relation of the i-th call.
Above(joins, i) ==
    {a \in 1..(i - 1) :
        /\ joins[a].depth < joins[i].depth
        /\ \A b \in (a + 1)..(i - 1) : joins[b].depth > joins[a].depth}

\* The relation the call followed is nullable or a reverse relation.
Optional(join) == join.null \/ join.reverse

\* C26: fill_related_selections asks for a promoted join at every relation
\* that is nullable or reverse, and at every relation below one on the path
\* from the root model.
C26_PromotionRequestedDownTheChain ==
    [][(lastCall' = "fill_related_selections" /\ ops' = ops + 1) =>
        \A i \in 1..Len(outcome'.rows) :
            (\/ Optional(outcome'.rows[i])
             \/ \E a \in Above(outcome'.rows, i) : Optional(outcome'.rows[a]))
            => outcome'.rows[i].promote
      ]_vars

\* fill_related_selections has followed a foreign key that is not nullable
\* below a nullable foreign key, and a foreign key that is not nullable below
\* a reverse relation, and asked for promoted joins.
C26_Witness ==
    /\ lastCall = "fill_related_selections"
    /\ \E i \in 1..Len(outcome.rows) :
            /\ ~Optional(outcome.rows[i])
            /\ outcome.rows[i].promote
            /\ \E a \in Above(outcome.rows, i) :
                    outcome.rows[a].null /\ ~outcome.rows[a].reverse
    /\ \E i \in 1..Len(outcome.rows) :
            /\ ~Optional(outcome.rows[i])
            /\ outcome.rows[i].promote
            /\ \A a \in Above(outcome.rows, i) : ~outcome.rows[a].null
            /\ \E a \in Above(outcome.rows, i) : outcome.rows[a].reverse

(***************************************************************************)
(* Part XVIII.  Collector.cascade_model_update: the cascades of a saved     *)
(* instance                                                                 *)
(***************************************************************************)
AttributeError == "AttributeError"

\* The update_fields argument for an instance saved with the field: None
\* (<<>>), an empty collection, or the name of the field.
UpdateFieldSets(field) == {<<>>, << <<>> >>, << <<field.name>> >>}

\* The row stored for the instance, as far as the cascades read it: none, or
\* the value stored in the field.
StoredRows == {<<>>} \cup {<<v>> : v \in Vals}

\* Collector.changed_vals(instance, possible_cascades): the list [] when no
\* row is stored for the instance, else the dictionary of the stored values
\* that differ from the attributes of the instance.
ChangedVals(stored, val) ==
    IF Len(stored) = 0 THEN [type |-> "list", items |-> <<>>]
    ELSE [type |-> "dict",
          items |-> IF stored[1] # val THEN <<stored[1]>> ELSE <<>>]

\* What cascade_model_update has done when it reaches self.update(), returns
\* or raises: the updates registered, the queries sent, and the exception of
\* "changed_vals.items()" on a list.
ModelUpdate(sch, field, stored, val, update_fields) ==
    LET possible_cascades == CollectPossibleCascades(sch, field)
        entries(from_vals) ==
            [i \in 1..Len(possible_cascades) |->
                UpdateEntry(sch, possible_cascades[i], from_vals, val)]
        done(kind, updates, queries, raised) ==
            [kind |-> kind, updates |-> updates, queries |-> queries,
             raised |-> raised]
        collected(changed) ==
            IF changed.type # "dict"
            THEN done("raised", <<>>, <<"SELECT DISTINCT">>, AttributeError)
            ELSE IF Len(changed.items) = 0
            THEN done("update", <<>>, <<"SELECT DISTINCT">>, "")
            ELSE done("update", entries({changed.items[1]}),
                      <<"SELECT DISTINCT">>, "")
    IN  IF update_fields = << <<>> >> THEN done(None, <<>>, <<>>, "")
        ELSE IF Len(possible_cascades) = 0 THEN done("update", <<>>, <<>>, "")
        ELSE collected(ChangedVals(stored, val))

\* collector.cascade_model_update(instance, update_fields) on a new
\* Collector: the updates are registered and Collector.update() is entered,
\* unless the method returned or raised before.
CascadeModelUpdate(field, stored, val, update_fields) ==
    LET called(r) ==
            /\ stack' = << Frame(r.updates) >>
            /\ cpc' = IF r.kind = "update" THEN "run" ELSE cpc
            /\ outcome' = Outcome(r.kind, <<>>, r.queries, <<>>, r.raised)
    IN  /\ cpc = "build"
        /\ ops < MaxOps
        /\ ops' = ops + 1
        /\ lastCall' = "cascade_model_update"
        /\ called(ModelUpdate(schema, field, stored, val, update_fields))
        /\ UNCHANGED <<schema, db, clog, nextId, db0, query, connection,
                       noted, cursors, closed, dirty, heap, sent, tpl>>

ModelUpdateNext ==
    \/ \E field \in SeqRange(schema), stored \in StoredRows, val \in ToVals :
       \E update_fields \in UpdateFieldSets(field) :
            CascadeModelUpdate(field, stored, val, update_fields)
    \/ Capture
    \/ Write
    \/ Cascade
    \/ NextUpdate
    \/ Return

SpecModelUpdate == CascadeStart /\ [][ModelUpdateNext]_vars

\* C30: cascade_model_update on an instance of a model with cascading
\* references and no stored row registers no update, writes nothing and
\* raises nothing; with an empty update_fields it sends no query.
C30_NoStoredRowNoUpdate ==
    [][\A field \in SeqRange(schema), val \in ToVals :
       \A update_fields \in UpdateFieldSets(field) :
        (/\ Len(CollectPossibleCascades(schema, field)) > 0
         /\ CascadeModelUpdate(field, <<>>, val, update_fields))
        => /\ outcome'.raised = ""
           /\ stack'[1].updates = <<>>
           /\ db' = db
           /\ update_fields = << <<>> >> => outcome'.sql = <<>>
      ]_vars

(***************************************************************************)
(* Claims about the joins of ORDER BY and DISTINCT ON                       *)
(***************************************************************************)
\* The alias is used by the ordering or the DISTINCT ON fields only: the
\* compilation made it, or found it with no reference left.
SolelyForOrdering(q, alias) ==
    \/ alias \notin DOMAIN q.alias_map
    \/ q.alias_refcount[alias] = 0

\* The entry of the FROM clause that joins the alias with join_type.
FromEntry(q, alias, join_type) ==
    join_type \o " " \o QuoteNameUnlessAlias(q, q.alias_map[alias].table_name)
    \o (IF alias # q.alias_map[alias].table_name THEN " " \o alias ELSE "")
    \o " ON (" \o QuoteNameUnlessAlias(q, q.alias_map[alias].lhs_alias)
    \o "." \o QuoteName(q.alias_map[alias].lhs_join_col) \o " = "
    \o QuoteNameUnlessAlias(q, alias) \o "."
    \o QuoteName(q.alias_map[alias].rhs_join_col) \o ")"

\* C19: when as_sql returns SQL, every join that only the ordering or the
\* DISTINCT ON fields use and that goes through a nullable relation, or
\* hangs on a LEFT OUTER join, is LEFT OUTER: it is so in the query and the
\* FROM clause of the SQL does not join it INNER.
C19_OrderingJoinsAreOuter ==
    [][(AsSqlStep /\ outcome'.kind = "sql") =>
        \A a \in DOMAIN query'.alias_map :
            (/\ SolelyForOrdering(query, a)
             /\ query'.alias_map[a].join_type # None
             /\ \/ query'.alias_map[a].nullable
                \/ query'.alias_map[query'.alias_map[a].lhs_alias].join_type
                        = LOUTER)
            => /\ query'.alias_map[a].join_type = LOUTER
               /\ \A i \in 1..Len(outcome'.sql) :
                        outcome'.sql[i] # FromEntry(query', a, INNER)
       ]_vars

\* as_sql has returned SQL that orders books by the name of their author,
\* who may be missing, through a LEFT OUTER join.
C19_Witness ==
    /\ lastCall \in {"as_sql", "as_sql_no_limits"}
    /\ outcome.kind = "sql"
    /\ query.model = "Book"
    /\ Len(query.where) = 0
    /\ "author" \in DOMAIN query.alias_map
    /\ query.alias_map["author"].nullable
    /\ \E i \in 1..Len(outcome.sql) :
            outcome.sql[i] = FromEntry(query, "author", LOUTER)
    /\ \E i \in 1..Len(outcome.sql) : outcome.sql[i] = "ORDER BY"

(***************************************************************************)
(* Claims about the FROM clause                                             *)
(***************************************************************************)
\* The query when as_sql calls get_from_clause: after pre_sql_setup,
\* get_columns, get_ordering and get_distinct.
Resolved(q) ==
    LET distinct(ord) == GetDistinct(ord.q, ord.q.distinct_fields)
    IN  distinct(GetOrdering(PreSqlSetup(q)))

\* The fragments that end the FROM clause of a SELECT.
AfterFrom ==
    {"WHERE", "GROUP BY", "ORDER BY", "OFFSET 1", ForUpdateSql(TRUE),
     ForUpdateSql(FALSE)} \cup {"LIMIT " \o ToString(n) : n \in 0..2}

\* The entries of the FROM clause of the SQL.
FromClause(sql) ==
    LET from == CHOOSE i \in 1..Len(sql) : sql[i] = "FROM"
        ends == {i \in (from + 1)..Len(sql) : sql[i] \in AfterFrom}
        end == IF ends = {} THEN Len(sql) + 1
               ELSE CHOOSE i \in ends : \A j \in ends : i <= j
    IN  SubSeq(sql, from + 1, end - 1)

\* The entries that put the alias in a FROM clause: as the first table, as
\* a further table, or joined.
EntriesOf(q, alias) ==
    LET table == QuoteNameUnlessAlias(q, q.alias_map[alias].table_name)
                 \o (IF alias # q.alias_map[alias].table_name
                     THEN " " \o alias ELSE "")
    IN  {table, ", " \o table, FromEntry(q, alias, INNER),
         FromEntry(q, alias, LOUTER)}

\* The aliases of query.tables that are referenced, in table order.
Live(q) == SelectSeq(q.tables, LAMBDA a : q.alias_refcount[a] # 0)

\* C24: the FROM clause of the SQL as_sql returns lists the aliases of
\* query.tables whose reference count is not zero once the select columns,
\* the ordering and the distinct fields are resolved: one entry each, in
\* table order, the joins the ordering and the distinct fields added
\* included, and no entry for an alias whose count is zero.
C24_FromListsReferencedAliases ==
    [][(AsSqlStep /\ outcome'.kind = "sql" /\ Len(outcome'.sql) > 0) =>
        LET q == Resolved(query)
            from_ == FromClause(outcome'.sql)
        IN  /\ Len(from_) = Len(Live(q))
            /\ \A i \in 1..Len(from_) : from_[i] \in EntriesOf(q, Live(q)[i])
            /\ \A a \in DOMAIN q.alias_map :
                    q.alias_refcount[a] = 0 =>
                        \A i \in 1..Len(from_) : from_[i] \notin EntriesOf(q, a)
            /\ \A a \in DOMAIN q.alias_map :
                    (SolelyForOrdering(query, a) /\ q.alias_refcount[a] # 0)
                    => \E i \in 1..Len(from_) : from_[i] \in EntriesOf(q, a)
       ]_vars

\* as_sql has compiled a query of books ordered by the primary key of their
\* author: the join the ordering added was trimmed again, the table of the
\* authors is in query.tables and not in the FROM clause.
C24_Witness ==
    /\ lastCall \in {"as_sql", "as_sql_no_limits"}
    /\ outcome.kind = "sql"
    /\ Len(outcome.sql) > 0
    /\ query.tables = <<"book", "author">>
    /\ Len(FromClause(outcome.sql)) = 1
    /\ \E i \in 1..Len(outcome.sql) : outcome.sql[i] = "ORDER BY"

(***************************************************************************)
(* Claims about the columns added for the ordering                          *)
(***************************************************************************)
\* The select list of the SQL: the fragments between SELECT [DISTINCT] and
\* FROM.
SelectList(sql) ==
    LET from == CHOOSE i \in 1..Len(sql) : sql[i] = "FROM"
        first == IF sql[2] = "DISTINCT" THEN 3 ELSE 2
    IN  SubSeq(sql, first, from - 1)

\* The entries of the ORDER BY clause of the SQL.
OrderByClause(sql) ==
    LET at == {i \in 1..Len(sql) : sql[i] = "ORDER BY"}
        ends(from) == {i \in (from + 1)..Len(sql) : sql[i] \in AfterFrom}
        clause(from) ==
            SubSeq(sql, from + 1,
                   IF ends(from) = {} THEN Len(sql)
                   ELSE (CHOOSE i \in ends(from) :
                            \A j \in ends(from) : i <= j) - 1)
    IN  IF at = {} THEN <<>> ELSE clause(CHOOSE i \in at : TRUE)

\* C25: with DISTINCT, every column of the ORDER BY clause is appended to
\* the select list after the regular columns, one per entry of
\* query.ordering_aliases, and without DISTINCT none is; every row that
\* execute_sql returns, the single row and each row of every chunk, has the
\* values of the regular columns and no other.
C25_OrderingColumnsStripped ==
    [][(ExecuteSqlStep /\ outcome'.kind \in {"row", "iterator", "list"}
            /\ Len(NewSent) > 0) =>
        LET select == SelectList(NewSent[1].sql)
            order_by == OrderByClause(NewSent[1].sql)
            trim == Len(query'.ordering_aliases)
            regular == Len(select) - trim
        IN  /\ regular >= 1
            /\ query'.distinct =>
                \A i \in 1..Len(order_by) :
                    \E j \in (regular + 1)..Len(select) :
                        order_by[i] \in {select[j] \o " ASC",
                                         select[j] \o " DESC"}
            /\ ~query'.distinct => trim = 0
            /\ \A i \in 1..Len(outcome'.rows) :
                    outcome'.rows[i] = [k \in 1..regular |-> k]
       ]_vars

\* execute_sql(MULTI) has returned two rows of a DISTINCT query whose
\* ordering column was appended to the select list.
C25_Witness ==
    /\ lastCall = "execute_sql_" \o MULTI
    /\ query.distinct
    /\ Len(query.ordering_aliases) > 0
    /\ Len(outcome.rows) = 2
    /\ Len(sent) > 0
    /\ Len(outcome.rows[1])
            = Len(SelectList(sent[Len(sent)].sql)) - Len(query.ordering_aliases)

\* execute_sql(SINGLE) has returned the row of a DISTINCT query whose
\* ordering column was appended to the select list.
C25_WitnessSingle ==
    /\ lastCall = "execute_sql_" \o SINGLE
    /\ query.distinct
    /\ Len(query.ordering_aliases) > 0
    /\ outcome.kind = "row"

(***************************************************************************)
(* Claims about the reference counts after a failed compilation             *)
(***************************************************************************)
\* The call was as_sql and it raised, or execute_sql and the EmptyResultSet
\* of as_sql was swallowed.
CompilationFailed ==
    \/ /\ lastCall \in {"as_sql", "as_sql_no_limits"}
       /\ outcome.raised \in {EmptyResultSet, NotImplementedError,
                              DatabaseError}
    \/ /\ lastCall \in {"execute_sql_" \o t : t \in {MULTI, SINGLE, None}}
       /\ outcome.raised = ""
       /\ cursors = 0
       /\ query.low_mark # query.high_mark

\* C27: when as_sql has raised, also when execute_sql swallowed the
\* exception, every alias has the refcount noted after pre_sql_setup (an
\* alias joined since then has none).
C27_RefcountsRestoredOnRaise ==
    CompilationFailed
    => /\ DOMAIN noted \subseteq DOMAIN query.alias_refcount
       /\ \A a \in DOMAIN query.alias_refcount :
            query.alias_refcount[a] = IF a \in DOMAIN noted THEN noted[a] ELSE 0

(***************************************************************************)
(* Claims about inserts object by object                                    *)
(***************************************************************************)
\* C28: when as_sql takes neither the bulk path nor the path that returns
\* the id from the insert, execute_sql executes one statement per object of
\* query.objs, in the order of the objects, with the values of the object as
\* params (none when the query has no fields).
C28_OneStatementPerObject ==
    [][(InsertStep /\ noted'.path = "per_object") =>
        /\ Len(NewSent) = Len(query.objs)
        /\ \A i \in 1..Len(NewSent) :
                NewSent[i].params
                    = IF Len(query.fields) > 0 THEN query.objs[i] ELSE <<>>
      ]_vars

(***************************************************************************)
(* Claims about execute_sql(SINGLE) on no rows                              *)
(***************************************************************************)
\* C29: when the statement of execute_sql(SINGLE) matches no row, the call
\* returns None and raises nothing, whether or not columns were appended to
\* the select list for the ordering.
C29_SingleReturnsNoneOnNoRow ==
    [][(CallExecuteSql(SINGLE, 0) /\ Len(NewSent) > 0) =>
        /\ outcome'.raised = ""
        /\ outcome'.kind = None
      ]_vars

(***************************************************************************)
(* Claims about cursors                                                     *)
(***************************************************************************)
\* C14: every cursor acquired by execute_sql is closed once, whatever the
\* exit path: when the call has returned a single row, a list of all rows,
\* or raised, the cursors it acquired are closed.
C14_CursorsClosed ==
    [][(ExecuteSqlStep /\ outcome'.kind \in {"row", "list", "raised", None})
        => closed' - closed = cursors' - cursors]_vars

(***************************************************************************)
(* Claims about row locks                                                   *)
(***************************************************************************)
\* The SQL returned has a locking clause.
Locks(sql) == \E i \in 1..Len(sql) : sql[i] \in {ForUpdateSql(n) : n \in BOOLEAN}

\* C11: compiling or executing a SELECT with select_for_update set while no
\* transaction is active raises an error at once, and no statement is
\* executed.
C11_LockOutsideTransactionRaises ==
    [][((AsSqlStep \/ ExecuteSqlStep \/ ResultsIterStep)
            /\ query.select_for_update /\ ~connection.is_managed)
        => (outcome'.raised # "" /\ NewSent = <<>>)]_vars

====
